---- MODULE Spec2Model ----
(***************************************************************************)
(* Model of the Wikipedia question-answering service of wiki-slackbot:     *)
(* QAService.answer_question (src/app/qa.py) with its collaborators        *)
(* (WikipediaClient, OpenAIClient, the ConversationState table).           *)
(*                                                                         *)
(* Texts are modelled by what the code observes of them:                   *)
(*   - a question is the sequence of its whitespace-separated words;       *)
(*   - an answer text is a record carrying its origin and its length;      *)
(*   - a stored context blob is the JSON object it encodes.                *)
(* Python's None and the falsy values "" and 0 are the same to the code's  *)
(* truth tests; conversation id "" and installation id 0 stand for both.   *)
(***************************************************************************)
EXTENDS Integers, Sequences, FiniteSets, TLC

(***************************************************************************)
(* Bounds of the model.                                                    *)
(***************************************************************************)
NumProcs == 2      \* workers that can run an upsert at the same time
MaxCalls == 2      \* calls of answer_question in one behaviour
MaxUpserts == 3    \* direct calls of the upsert in one behaviour
MaxAskedWords == 5 \* pieces of a question handed to the rewrite test alone
MaxExtractSents == 6  \* sentences of an extract handed to the synthesizer alone
MaxMarkerSents == 2   \* sentences of an extract that holds a reference marker

Procs == 1..NumProcs

(***************************************************************************)
(* Values.                                                                 *)
(***************************************************************************)
NoConv == ""
NoInst == 0
ConvIds == {"c1", "c2"}
InstIds == {1}

\* Optional[str] None
NoneText == [kind |-> "none"]
\* the empty string ""
EmptyText == [kind |-> "text", id |-> "empty", len |-> 0]

\* `if x:` on an Optional[str]
Truthy(t) == t.kind # "none" /\ t.len > 0

(***************************************************************************)
(* Questions.  A question is the sequence of the words of its trimmed,     *)
(* lower-cased text; the words here are made of word characters only, so   *)
(* the regular expression \bword\b matches exactly a whole word.           *)
(***************************************************************************)
Questions ==
    { <<"cats">>,
      <<"tell", "me", "more", "about", "it">>,
      <<"what", "is", "the", "history", "of", "cats">> }

\* what the rewrite delegate can answer with
RewriteTexts == { <<"history", "of", "felidae">> }

pronouns ==
    { "it", "they", "them", "this", "that", "those", "these",
      "he", "she", "him", "her", "there", "their" }

MaxShortWords == 4

\* the characters of the words that occur in the questions and texts and of
\* the stop words; the empty word stands for one more blank between two
\* words of a question, or before or after them
Spell(word) ==
    CASE word = "" -> << >>
      [] word = "it" -> <<"i", "t">>
      [] word = "It" -> <<"I", "t">>
      [] word = "its" -> <<"i", "t", "s">>
      [] word = "it's" -> <<"i", "t", "'", "s">>
      [] word = "he" -> <<"h", "e">>
      [] word = "she" -> <<"s", "h", "e">>
      [] word = "him" -> <<"h", "i", "m">>
      [] word = "her" -> <<"h", "e", "r">>
      [] word = "they" -> <<"t", "h", "e", "y">>
      [] word = "them" -> <<"t", "h", "e", "m">>
      [] word = "this" -> <<"t", "h", "i", "s">>
      [] word = "that" -> <<"t", "h", "a", "t">>
      [] word = "those" -> <<"t", "h", "o", "s", "e">>
      [] word = "these" -> <<"t", "h", "e", "s", "e">>
      [] word = "there" -> <<"t", "h", "e", "r", "e">>
      [] word = "their" -> <<"t", "h", "e", "i", "r">>
      [] word = "the" -> <<"t", "h", "e">>
      [] word = "other" -> <<"o", "t", "h", "e", "r">>
      [] word = "cats" -> <<"c", "a", "t", "s">>
      [] word = "cats?" -> <<"c", "a", "t", "s", "?">>
      [] word = "tell" -> <<"t", "e", "l", "l">>
      [] word = "me" -> <<"m", "e">>
      [] word = "more" -> <<"m", "o", "r", "e">>
      [] word = "about" -> <<"a", "b", "o", "u", "t">>
      [] word = "what" -> <<"w", "h", "a", "t">>
      [] word = "is" -> <<"i", "s">>
      [] word = "history" -> <<"h", "i", "s", "t", "o", "r", "y">>
      [] word = "of" -> <<"o", "f">>
      [] word = "felidae" -> <<"f", "e", "l", "i", "d", "a", "e">>
      [] word = "a" -> <<"a">>
      [] word = "an" -> <<"a", "n">>
      [] word = "and" -> <<"a", "n", "d">>
      [] word = "or" -> <<"o", "r">>
      [] word = "but" -> <<"b", "u", "t">>
      [] word = "in" -> <<"i", "n">>
      [] word = "on" -> <<"o", "n">>
      [] word = "at" -> <<"a", "t">>
      [] word = "to" -> <<"t", "o">>
      [] word = "for" -> <<"f", "o", "r">>
      [] word = "with" -> <<"w", "i", "t", "h">>
      [] word = "by" -> <<"b", "y">>
      [] word = "are" -> <<"a", "r", "e">>
      [] word = "was" -> <<"w", "a", "s">>
      [] word = "were" -> <<"w", "e", "r", "e">>
      [] word = "be" -> <<"b", "e">>
      [] word = "been" -> <<"b", "e", "e", "n">>
      [] word = "have" -> <<"h", "a", "v", "e">>
      [] word = "has" -> <<"h", "a", "s">>
      [] word = "had" -> <<"h", "a", "d">>
      [] word = "do" -> <<"d", "o">>
      [] word = "does" -> <<"d", "o", "e", "s">>
      [] word = "did" -> <<"d", "i", "d">>
      [] word = "will" -> <<"w", "i", "l", "l">>
      [] word = "would" -> <<"w", "o", "u", "l", "d">>
      [] word = "could" -> <<"c", "o", "u", "l", "d">>
      [] word = "should" -> <<"s", "h", "o", "u", "l", "d">>
      [] word = "when" -> <<"w", "h", "e", "n">>
      [] word = "where" -> <<"w", "h", "e", "r", "e">>
      [] word = "why" -> <<"w", "h", "y">>
      [] word = "how" -> <<"h", "o", "w">>
      [] word = "who" -> <<"w", "h", "o">>
      [] word = "which" -> <<"w", "h", "i", "c", "h">>
      [] word = "The" -> <<"T", "h", "e">>
      [] word = "hats" -> <<"h", "a", "t", "s">>
      [] word = " " -> <<" ">>
      [] word = "." -> <<".">>
      [] word = "?!" -> <<"?", "!">>

RECURSIVE Text(_)
\* the text of a question: its words, one blank between two of them
Text(question) ==
    IF question = << >> THEN << >>
    ELSE IF Len(question) = 1 THEN Spell(question[1])
    ELSE Spell(question[1]) \o <<" ">> \o Text(Tail(question))

\* str.lower
lower(text) ==
    [n \in 1..Len(text) |-> CASE text[n] = "I" -> "i"
                              [] text[n] = "T" -> "t"
                              [] OTHER -> text[n]]

RECURSIVE strip(_)
\* str.strip
strip(text) ==
    IF text = << >> THEN text
    ELSE IF Head(text) = " " THEN strip(Tail(text))
    ELSE IF text[Len(text)] = " " THEN strip(SubSeq(text, 1, Len(text) - 1))
    ELSE text

\* len(text.split()): the runs of characters that are not white space
word_count(text) ==
    Cardinality({ n \in 1..Len(text) :
                    text[n] # " " /\ (n = 1 \/ text[n - 1] = " ") })

\* the characters that \w does not match
NonWordChars == {" ", "'", "?", ".", "!"}

\* the pronoun anywhere in the text
re_search_substring(pronoun, text) ==
    \E s \in 1..Len(text) :
        /\ s + Len(pronoun) - 1 <= Len(text)
        /\ SubSeq(text, s, s + Len(pronoun) - 1) = pronoun

\* re.search(rf"\b{pronoun}\b", text), the pronoun made of word characters
re_search(pronoun, text) ==
    \E s \in 1..Len(text) :
        LET e == s + Len(pronoun) - 1
        IN  /\ e <= Len(text)
            /\ SubSeq(text, s, e) = pronoun
            /\ s = 1 \/ text[s - 1] \in NonWordChars
            /\ e = Len(text) \/ text[e + 1] \in NonWordChars

\* question is the list of the pieces of the text between single blanks
_should_rewrite_question(question) ==
    LET normalized == lower(strip(Text(question)))
    IN  IF normalized = << >> THEN FALSE
        ELSE IF word_count(normalized) <= MaxShortWords THEN TRUE
        ELSE \E pronoun \in pronouns : re_search(Spell(pronoun), normalized)

stop_words ==
    { "the", "a", "an", "and", "or", "but", "in", "on", "at", "to", "for",
      "of", "with", "by", "is", "are", "was", "were", "be", "been", "have",
      "has", "had", "do", "does", "did", "will", "would", "could", "should",
      "what", "when", "where", "why", "how", "who", "which", "that", "this" }

MinKeywordLen == 2

IsKeyword(word) == word \notin stop_words /\ Len(word) > MinKeywordLen

_extract_keywords(text) == SelectSeq(text, IsKeyword)

(***************************************************************************)
(* Wikipedia data.  A search result and an article are the records of      *)
(* wiki_client.py.  A sentence of an extract is known by its text (id),    *)
(* its length and the keywords that occur in its lower-cased text as       *)
(* substrings (has).  An extract is the list of the sentences its cleaned  *)
(* text splits into, and whether that text ends with a delimiter.          *)
(***************************************************************************)
Titles == {"Cats", "Kitty", "Felidae"}

\* A snippet is a list of runs of characters: n times an ordinary
\* character "x", a blank " ", the character "<", ">" or "&", or the
\* entity "&lt;", "&gt;" or "&amp;"
Run(c, n) == [c |-> c, n |-> n]

\* the snippets of the search results:
\* Cats: <span class="searchmatch">Cats</span> are small &lt;b&gt;furry&lt;/b&gt; &amp; nice
\* Kitty: the empty snippet
\* Felidae: 100 characters, a blank, a highlighted word of 15, a blank as
\*          character 117, and 40 characters more
RawSnippet(title) ==
    CASE title = "Cats" ->
           << Run("<", 1), Run("x", 4), Run(" ", 1), Run("x", 19), Run(">", 1),
              Run("x", 4), Run("<", 1), Run("x", 5), Run(">", 1),
              Run(" ", 1), Run("x", 3), Run(" ", 1), Run("x", 5), Run(" ", 1),
              Run("&lt;", 1), Run("x", 1), Run("&gt;", 1), Run("x", 5),
              Run("&lt;", 1), Run("x", 2), Run("&gt;", 1),
              Run(" ", 1), Run("&amp;", 1), Run(" ", 1), Run("x", 4) >>
      [] title = "Kitty" -> << >>
      [] title = "Felidae" ->
           << Run(" ", 1), Run("x", 100), Run(" ", 1),
              Run("<", 1), Run("x", 4), Run(" ", 1), Run("x", 19), Run(">", 1),
              Run("x", 15), Run("<", 1), Run("x", 5), Run(">", 1),
              Run(" ", 1), Run("x", 40), Run(" ", 2) >>

PageIdOf(title) ==
    CASE title = "Cats" -> 11 [] title = "Kitty" -> 12 [] title = "Felidae" -> 13

SearchResult(title) ==
    [title |-> title, snippet |-> RawSnippet(title),
     url |-> "https://en.wikipedia.org/wiki/" \o title, page_id |-> PageIdOf(title)]

\* slack: the characters clean_text removes from the sentence (white space
\* beyond one blank inside it); trail: the white space after it, which
\* strip() drops when nothing follows
Sent(id, len, has) == [id |-> id, len |-> len, has |-> has, slack |-> 0, trail |-> 0]

ExtractOf(title) ==
    CASE title = "Cats" ->
           [sents |-> << Sent("cats-a", 45, {"cats"}),
                         Sent("cats-b", 12, {"cats", "history"}),
                         Sent("cats-c", 30, {}),
                         Sent("cats-a", 45, {"cats"}) >>,
            terminated |-> TRUE, lines |-> 1]
      [] title = "Kitty" ->
           [sents |-> << >>, terminated |-> FALSE, lines |-> 0]
      [] title = "Felidae" ->
           [sents |-> << Sent("fel-a", 600, {"cats", "felidae"}),
                         Sent("fel-b", 590, {"history", "felidae"}) >>,
            terminated |-> FALSE, lines |-> 2]

\* the page summary that get_article builds the article from; the page
\* found for the search title "Kitty" is the redirect target "Kitten"
WikipediaArticle(title) ==
    [title |-> IF title = "Kitty" THEN "Kitten" ELSE title,
     extract |-> ExtractOf(title),
     url |-> "https://en.wikipedia.org/wiki/" \o (IF title = "Kitty" THEN "Kitten" ELSE title),
     page_id |-> IF title = "Kitty" THEN 99 ELSE PageIdOf(title)]

\* keywords that occur in the lower-cased title
TitleHas(title) == IF title = "Cats" THEN {"cats"}
                   ELSE IF title = "Felidae" THEN {"felidae"} ELSE {}

(***************************************************************************)
(* _clean_snippet: unescape, drop the tags, trim, and cut to 120.          *)
(***************************************************************************)
MaxSnippetLen == 120
SnippetCut == 117
EllipsisLen == 3

RECURSIVE TextLen(_)
\* len(text)
TextLen(text) ==
    IF text = << >> THEN 0 ELSE Head(text).n + TextLen(Tail(text))

\* html.unescape: every entity becomes its character
unescape(text) ==
    [k \in 1..Len(text) |->
       CASE text[k].c = "&lt;" -> Run("<", text[k].n)
         [] text[k].c = "&gt;" -> Run(">", text[k].n)
         [] text[k].c = "&amp;" -> Run("&", text[k].n)
         [] OTHER -> text[k]]

\* the end of the match of <[^>]+> at the start of text, 0 for no match:
\* the first ">" after the "<", when a character stands between them
TagEnd(text) ==
    IF text = << >> \/ Head(text).c # "<" \/ Head(text).n # 1 THEN 0
    ELSE LET ends == { k \in 2..Len(text) : text[k].c = ">" }
         IN  IF ends = { } THEN 0
             ELSE LET first == CHOOSE k \in ends : \A m \in ends : k <= m
                  IN  IF first > 2 THEN first ELSE 0

RECURSIVE re_sub_tags(_)
\* re.sub(r"<[^>]+>", "", text): the matches from left to right, removed
re_sub_tags(text) ==
    IF text = << >> THEN << >>
    ELSE IF TagEnd(text) > 0
         THEN re_sub_tags(SubSeq(text, TagEnd(text) + 1, Len(text)))
         ELSE << Head(text) >> \o re_sub_tags(Tail(text))

RECURSIVE rstrip_runs(_)
\* str.rstrip
rstrip_runs(text) ==
    IF text # << >> /\ text[Len(text)].c = " "
    THEN rstrip_runs(SubSeq(text, 1, Len(text) - 1))
    ELSE text

RECURSIVE lstrip_runs(_)
lstrip_runs(text) ==
    IF text # << >> /\ Head(text).c = " " THEN lstrip_runs(Tail(text)) ELSE text

\* str.strip
strip_runs(text) == rstrip_runs(lstrip_runs(text))

RECURSIVE Take(_, _)
\* text[:n]
Take(text, n) ==
    IF n <= 0 \/ text = << >> THEN << >>
    ELSE IF Head(text).n <= n
         THEN << Head(text) >> \o Take(Tail(text), n - Head(text).n)
         ELSE << Run(Head(text).c, n) >>

\* the tags removed before the entities are unescaped
_clean_snippet_tagsfirst(snippet) ==
    IF snippet = << >> THEN << >>
    ELSE LET text == strip_runs(unescape(re_sub_tags(snippet)))
         IN  IF TextLen(text) > MaxSnippetLen
             THEN rstrip_runs(Take(text, SnippetCut)) \o << Run(".", EllipsisLen) >>
             ELSE text

_clean_snippet(snippet) ==
    IF snippet = << >> THEN << >>
    ELSE LET text == strip_runs(re_sub_tags(unescape(snippet)))
         IN  IF TextLen(text) > MaxSnippetLen
             THEN rstrip_runs(Take(text, SnippetCut)) \o << Run(".", EllipsisLen) >>
             ELSE text

(***************************************************************************)
(* The fixed messages of answer_question and _synthesize_answer.           *)
(***************************************************************************)
MsgNoResults == [kind |-> "text", id |-> "couldn't find any relevant information", len |-> 111]
MsgNoArticles == [kind |-> "text", id |-> "found some search results but couldn't retrieve", len |-> 115]
MsgIncoherent == [kind |-> "text", id |-> "couldn't generate a coherent answer", len |-> 109]

(***************************************************************************)
(* _synthesize_answer and its helpers.                                     *)
(***************************************************************************)
MaxAnswerLen == 1000
AnswerCut == 997
MaxSentences == 5
MinSentenceLen == 20
FallbackSentences == 3

\* two pieces of text with gap characters of white space between them
Glue(x, gap, y) ==
    [id |-> x.id \o " " \o y.id,
     len |-> x.len + x.trail + gap + y.len,
     has |-> x.has \cup y.has,
     slack |-> x.slack + y.slack + (x.trail + gap - 1),
     trail |-> y.trail]

\* "{title}:\n{cleaned_extract}" split at the delimiters: the title is part
\* of the first fragment
ArticleFragments(article) ==
    LET head == Sent(article.title \o ":", Len(article.title) + 1, TitleHas(article.title))
        sents == article.extract.sents
    IN  IF sents = << >> THEN << [head EXCEPT !.trail = 1] >>
        ELSE << Glue(head, 1, Head(sents)) >> \o Tail(sents)

\* is the text of the article followed by a delimiter
ArticleClosed(article) ==
    article.extract.sents # << >> /\ article.extract.terminated

RECURSIVE CombinedFragments(_, _, _, _)
\* _split_into_sentences of the combined text of articles[i..]: acc holds
\* the fragments so far, open says that the last of them is not closed
CombinedFragments(articles, i, acc, open) ==
    IF i > Len(articles) THEN acc
    ELSE LET frs == ArticleFragments(articles[i])
             nxt == IF open /\ acc # << >>
                    THEN SubSeq(acc, 1, Len(acc) - 1)
                           \o << Glue(acc[Len(acc)], 2, Head(frs)) >> \o Tail(frs)
                    ELSE acc \o frs
         IN  CombinedFragments(articles, i + 1, nxt, ~ArticleClosed(articles[i]))

_split_combined(articles) == CombinedFragments(articles, 1, << >>, FALSE)

_score_sentence(sentence, keywords) ==
    Cardinality({ i \in 1..Len(keywords) : keywords[i] \in sentence.has })

Reverse(seq) == [n \in 1..Len(seq) |-> seq[Len(seq) + 1 - n]]

RECURSIVE SortByScore(_, _, _)
\* an ascending sort, reversed: the sentences of one score change places
SortByScore_reversed(sentences, keywords, k) ==
    IF k = 0 THEN << >>
    ELSE LET AtK(s) == _score_sentence(s, keywords) = k
         IN  Reverse(SelectSeq(sentences, AtK)) \o SortByScore(sentences, keywords, k - 1)

\* list.sort(key=score, reverse=True): stable, highest score first
SortByScore(sentences, keywords, k) ==
    IF k = 0 THEN << >>
    ELSE LET AtK(s) == _score_sentence(s, keywords) = k
         IN  SelectSeq(sentences, AtK) \o SortByScore(sentences, keywords, k - 1)

RECURSIVE PickParts(_, _, _)
\* the loop over scored_sentences[:5]: skip what was used, and what is short
PickParts(scored, i, parts) ==
    IF i > Len(scored) THEN parts
    ELSE IF (\A j \in 1..Len(parts) : parts[j].id # scored[i].id)
              /\ scored[i].len > MinSentenceLen
         THEN PickParts(scored, i + 1, Append(parts, scored[i]))
         ELSE PickParts(scored, i + 1, parts)

RECURSIVE JoinedLen(_)
JoinedLen(parts) ==
    IF parts = << >> THEN 0
    ELSE IF Len(parts) = 1 THEN parts[1].len
    ELSE parts[1].len + 1 + JoinedLen(Tail(parts))

RECURSIVE SentSlack(_)
\* the characters that clean_text removes inside the sentences
SentSlack(parts) ==
    IF parts = << >> THEN 0 ELSE parts[1].slack + SentSlack(Tail(parts))

\* the sentences that clean_text removes whole
Emptied(parts) == { n \in 1..Len(parts) : parts[n].slack = parts[n].len }

\* line 170: what clean_text removes from the joined sentences: the
\* characters inside them, and for each sentence removed whole the blank
\* that joined it (\s+ collapses, strip() at the ends)
Slack(parts) ==
    IF parts = << >> THEN 0
    ELSE SentSlack(parts)
           + (IF Cardinality(Emptied(parts)) < Len(parts)
              THEN Cardinality(Emptied(parts)) ELSE Len(parts) - 1)

RECURSIVE JoinedId(_)
JoinedId(parts) ==
    IF parts = << >> THEN ""
    ELSE IF Len(parts) = 1 THEN parts[1].id
    ELSE parts[1].id \o " " \o JoinedId(Tail(parts))

\* the answer returned as joined, whatever its length
Truncate_never(text) == text

\* answer[:997] + "..." when the answer is longer than 1000
Truncate(text) ==
    IF text.len > MaxAnswerLen
    THEN [kind |-> "text", id |-> text.id \o "...", len |-> AnswerCut + EllipsisLen]
    ELSE text

\* clean_text of text made of cleaned sentences: runs of white space
\* collapse to one blank
clean_text(text) == [kind |-> "text", id |-> text.id, len |-> text.len - text.slack]

Prefix(seq, n) == SubSeq(seq, 1, IF Len(seq) < n THEN Len(seq) ELSE n)

\* lines 135-146: the sentences with a score above 0, best first
ScoredSentences(question, articles) ==
    LET keywords == _extract_keywords(question)
    IN  SortByScore(_split_combined(articles), keywords, Len(keywords))

\* lines 149-163: the sentences of the answer, and where they come from:
\* the scored sentences, the extract of the first article, or nowhere
AnswerParts(question, articles) ==
    LET picked == PickParts(Prefix(ScoredSentences(question, articles),
                                   MaxSentences), 1, << >>)
    IN  IF picked # << >> THEN [how |-> "scored", sents |-> picked]
        ELSE IF articles # << >> /\ articles[1].extract.sents # << >>
             THEN [how |-> "fallback",
                   sents |-> Prefix(articles[1].extract.sents, FallbackSentences)]
             ELSE [how |-> "none", sents |-> << >>]

_synthesize_answer(question, articles) ==
    LET parts == AnswerParts(question, articles).sents
    IN  IF parts = << >> THEN MsgIncoherent
        ELSE Truncate(clean_text([kind |-> "text", id |-> JoinedId(parts),
                                  len |-> JoinedLen(parts), slack |-> Slack(parts)]))

(***************************************************************************)
(* Outcomes of the collaborators.                                          *)
(***************************************************************************)
SearchLimit == 3
CitedResults == 2
MaxLines == 10

RECURSIVE SeqsOver(_, _)
\* the sequences of at most n distinct elements of S
SeqsOver(S, n) ==
    IF n = 0 THEN { << >> }
    ELSE LET shorter == SeqsOver(S, n - 1)
         IN  shorter \cup
             { Append(q, x) : <<q, x>> \in
                 { pr \in shorter \X S :
                     /\ Len(pr[1]) = n - 1
                     /\ \A k \in 1..Len(pr[1]) : pr[1][k] # pr[2] } }

\* WikipediaClient.search: the results found, << >> also on any failure
SearchOutcomes ==
    { [k \in 1..Len(ts) |-> SearchResult(ts[k])] : ts \in SeqsOver(Titles, SearchLimit) }

\* WikipediaClient.get_article: the article, or None on any failure
NoArticle == [kind |-> "none"]
FetchOutcomes(title) == { NoArticle, WikipediaArticle(title) }

\* WikipediaClient.get_article_content: the number of non-empty lines of
\* the plain text, 0 when it is None or empty
ContentOutcomes == {0, 3, 12}

\* OpenAIClient.summarize: a stripped non-empty text, or an error.  The
\* client is built outside the try block that wraps errors in
\* OpenAIClientError, so an error of another class can leave summarize.
SummaryTexts ==
    { [kind |-> "text", id |-> "summary-short", len |-> 640],
      [kind |-> "text", id |-> "summary-long", len |-> 1500] }
SummarizeOutcomes ==
    { [r |-> "ok", text |-> t] : t \in SummaryTexts }
      \cup { [r |-> "client_error"], [r |-> "other_error"] }

\* openai_client.rewrite_question: a text, the empty text, or an error
RewriteOutcomes ==
    { [r |-> "ok", text |-> t] : t \in RewriteTexts }
      \cup { [r |-> "empty"], [r |-> "client_error"], [r |-> "other_error"] }

\* the database: a session is opened, a statement (query or commit) runs
DbOutcomes == { "ok", "open_fail", "stmt_fail" }

(***************************************************************************)
(* The ConversationState table and the stored context.                     *)
(***************************************************************************)
Keys == ConvIds \X InstIds

json_dumps(data) == [json |-> data]
json_loads(blob) == blob.json

\* dict.get(field, default) on a decoded context
Get(data, field, default) == IF field \in DOMAIN data THEN data[field] ELSE default

\* rows of the table that exist before the service starts: none, or one
\* written without a count
InitialRow ==
    [conversation_id |-> "c1", installation_id |-> 1,
     context |-> json_dumps([last_answer |->
                   [kind |-> "text", id |-> "Previous answer", len |-> 15]])]

InitialStores == { << >>, << InitialRow >> }

Matches(table, conversation_id, installation_id) ==
    { id \in 1..Len(table) :
        /\ table[id].conversation_id = conversation_id
        /\ table[id].installation_id = installation_id }

(***************************************************************************)
(* State.                                                                  *)
(***************************************************************************)
VARIABLES
    rows,      \* the ConversationState table; a row's index is its primary key
    ncommit,   \* history: upserts committed so far, per key
    ncalls,    \* history: operations started so far
    upc,       \* per worker: where its _update_conversation_context is
    uarg,      \* per worker: the arguments of that call
    upend,     \* per worker: what its session will write at commit
    call       \* the call of answer_question in progress, and its result

vars == <<rows, ncommit, ncalls, upc, uarg, upend, call>>

NoArgs == [conversation_id |-> NoConv, installation_id |-> NoInst,
           question |-> << >>, answer |-> NoneText]
NoWrite == [op |-> "none"]

\* the worker that runs answer_question
Caller == 1

IdleCall ==
    [pc |-> "idle", question |-> << >>, conversation_id |-> NoConv,
     installation_id |-> NoInst, context |-> NoneText, query_question |-> << >>,
     search_results |-> << >>, articles |-> << >>, citations |-> << >>, k |-> 0,
     summary_text |-> NoneText, answer_text |-> NoneText, result |-> NoneText,
     log |-> << >>, attempts |-> << >>, synth_question |-> << >>,
     rewritten |-> << >>, error |-> "",
     parts |-> [how |-> "none", sents |-> << >>], fetched |-> << >>,
     searched |-> << >>, topics |-> << >>, read |-> "none", passed |-> << >>,
     before |-> << >>]

Init ==
    /\ rows \in InitialStores
    /\ ncommit = [key \in Keys |-> 0]
    /\ ncalls = 0
    /\ upc = [p \in Procs |-> "idle"]
    /\ uarg = [p \in Procs |-> NoArgs]
    /\ upend = [p \in Procs |-> NoWrite]
    /\ call = IdleCall

(***************************************************************************)
(* _update_conversation_context, in two steps: the session is opened and   *)
(* the row queried; then the session commits and is closed.  Each call     *)
(* has its own session, and nothing orders the statements of two sessions. *)
(***************************************************************************)
\* the count of the row found, kept as it is
NextCount_stuck(existing) == Get(existing, "conversation_count", 1)

\* line 260: the count of an upsert that found the decoded context existing
NextCount(existing) == Get(existing, "conversation_count", 0) + 1

ContextData(question, answer, count) ==
    [last_question |-> question, last_answer |-> answer, conversation_count |-> count]

\* the arguments of the direct calls
DirectQuestions == { <<"cats">>, <<"tell", "me", "more", "about", "it">> }
DirectAnswers == { [kind |-> "text", id |-> "summary-short", len |-> 640] }

\* a direct call of the upsert by worker p
UpsertCall(p) ==
    /\ upc[p] = "idle"
    /\ call.pc = "idle"
    /\ ncalls < MaxUpserts
    /\ \E key \in Keys, q \in DirectQuestions, a \in DirectAnswers :
         uarg' = [uarg EXCEPT ![p] = [conversation_id |-> key[1], installation_id |-> key[2],
                                      question |-> q, answer |-> a]]
    /\ upc' = [upc EXCEPT ![p] = "called"]
    /\ ncalls' = ncalls + 1
    /\ UNCHANGED <<rows, ncommit, upend, call>>

\* lines 243-270: get_db_session, query(...).first(), and the change staged
UpsertRead(p) ==
    /\ upc[p] = "called"
    /\ \E outcome \in DbOutcomes :
         CASE outcome = "open_fail" ->
                \* line 276: session.rollback() on the unbound name session
                /\ upc' = [upc EXCEPT ![p] = "raised"]
                /\ UNCHANGED upend
           [] outcome = "stmt_fail" ->
                /\ upc' = [upc EXCEPT ![p] = "done"]
                /\ UNCHANGED upend
           [] outcome = "ok" ->
                LET found == Matches(rows, uarg[p].conversation_id, uarg[p].installation_id)
                IN  /\ upc' = [upc EXCEPT ![p] = "read"]
                    /\ IF found = {}
                       THEN upend' = [upend EXCEPT ![p] =
                              [op |-> "insert",
                               context |-> json_dumps(
                                 ContextData(uarg[p].question, uarg[p].answer, 1))]]
                       ELSE \E id \in found :
                              upend' = [upend EXCEPT ![p] =
                                [op |-> "update", id |-> id,
                                 context |-> json_dumps(
                                   ContextData(uarg[p].question, uarg[p].answer,
                                     NextCount(json_loads(rows[id].context))))]]
    /\ UNCHANGED <<rows, ncommit, ncalls, uarg, call>>

\* the count of an update is taken from the row as it is at the commit
Written_recount(p) ==
    IF upend[p].op = "insert"
    THEN Append(rows, [conversation_id |-> uarg[p].conversation_id,
                       installation_id |-> uarg[p].installation_id,
                       context |-> upend[p].context])
    ELSE [rows EXCEPT ![upend[p].id].context =
            json_dumps([json_loads(upend[p].context) EXCEPT
               !.conversation_count = NextCount(json_loads(rows[upend[p].id].context))])]

\* the table after the staged change of worker p is written
Written(p) ==
    IF upend[p].op = "insert"
    THEN Append(rows, [conversation_id |-> uarg[p].conversation_id,
                       installation_id |-> uarg[p].installation_id,
                       context |-> upend[p].context])
    ELSE [rows EXCEPT ![upend[p].id].context = upend[p].context]

\* lines 272-278: session.commit(), or rollback on an error; then close
UpsertCommit(p) ==
    /\ upc[p] = "read"
    /\ \E ok \in BOOLEAN :
         IF ok
         THEN /\ rows' = Written(p)
              /\ ncommit' = [ncommit EXCEPT
                   ![<<uarg[p].conversation_id, uarg[p].installation_id>>] = @ + 1]
         ELSE UNCHANGED <<rows, ncommit>>
    /\ upc' = [upc EXCEPT ![p] = "done"]
    /\ upend' = [upend EXCEPT ![p] = NoWrite]
    /\ UNCHANGED <<ncalls, uarg, call>>

\* the direct call of worker p returns, or raises
UpsertReturn(p) ==
    /\ upc[p] \in {"done", "raised"}
    /\ call.pc = "idle"
    /\ upc' = [upc EXCEPT ![p] = "idle"]
    /\ uarg' = [uarg EXCEPT ![p] = NoArgs]
    /\ UNCHANGED <<rows, ncommit, ncalls, upend, call>>

NextStore ==
    \E p \in Procs :
        \/ UpsertCall(p)
        \/ UpsertRead(p)
        \/ UpsertCommit(p)
        \/ UpsertReturn(p)

\* workers that call the upsert directly and at the same time
StoreSpec == Init /\ [][NextStore]_vars

(***************************************************************************)
(* answer_question, step by step.  Every await of a collaborator is a step *)
(* whose outcome is chosen among the outcomes of that collaborator.        *)
(***************************************************************************)
Citation(title, url, snippet, page_id) ==
    [title |-> title, url |-> url, snippet |-> snippet, page_id |-> page_id]

QAAnswer(answer, citations, conversation_id) ==
    [answer |-> answer, citations |-> citations, conversation_id |-> conversation_id]

\* `if conversation_id or installation_id`
HasKey_either(conversation_id, installation_id) ==
    conversation_id # NoConv \/ installation_id # NoInst

\* `if conversation_id and installation_id`
HasKey(conversation_id, installation_id) ==
    conversation_id # NoConv /\ installation_id # NoInst

\* _get_conversation_context, lines 212-232: the contexts it can return
\* (the query has no ORDER BY, first() returns any matching row); the
\* empty set when it raises
LoadedContexts(table, conversation_id, installation_id, outcome) ==
    IF ~HasKey(conversation_id, installation_id) THEN { NoneText }
    ELSE CASE outcome = "open_fail" -> { }
           [] outcome = "stmt_fail" -> { NoneText }
           [] outcome = "ok" ->
                LET found == Matches(table, conversation_id, installation_id)
                IN  IF found = {} THEN { NoneText }
                    ELSE { Get(json_loads(table[id].context), "last_answer", EmptyText) :
                             id \in found }

\* the conversations of the calls of answer_question
CallConvIds == {"c1"}

\* lines 32-42: a call starts and loads the conversation context; read is
\* the history of how the read of the context went
\* and before is the history of the store as the call found it
Call ==
    /\ call.pc \in {"idle", "done", "raised"}
    /\ \A p \in Procs : upc[p] = "idle"
    /\ ncalls < MaxCalls
    /\ ncalls' = ncalls + 1
    /\ \E q \in Questions, c \in CallConvIds \cup {NoConv}, i \in InstIds \cup {NoInst},
          outcome \in DbOutcomes :
         LET fresh == [IdleCall EXCEPT !.question = q, !.conversation_id = c,
                                       !.installation_id = i, !.query_question = q,
                                       !.read = IF HasKey(c, i) THEN outcome ELSE "none",
                                       !.before = rows,
                                       !.log = IF HasKey(c, i) THEN << "context_read" >>
                                               ELSE << >>]
             loaded == LoadedContexts(rows, c, i, outcome)
         IN  /\ HasKey(c, i) \/ outcome = "ok"
             /\ IF loaded = {}
                THEN call' = [fresh EXCEPT !.pc = "raised", !.error = "context_read"]
                ELSE \E ctx \in loaded :
                       call' = [fresh EXCEPT !.pc = "rewrite", !.context = ctx]
    /\ UNCHANGED <<rows, ncommit, upc, uarg, upend>>

\* _rewrite_question_with_context, lines 325-335: every error gives None
Rewritten(outcome) == IF outcome.r = "ok" THEN outcome.text ELSE << >>

\* the handler of line 333 left out: an error that is no OpenAIClientError
\* ends the call
AfterRewrite_uncaught(outcome) ==
    IF outcome.r = "other_error" THEN "raised" ELSE "search"

\* lines 330-335 and 46-50: whatever the delegate did, the search is next
AfterRewrite(outcome) == "search"

\* the test of the question alone
ShouldCallRewrite_nocontext(context, question) ==
    _should_rewrite_question(question)

\* line 44: `if context and self._should_rewrite_question(question)`
ShouldCallRewrite(context, question) ==
    Truthy(context) /\ _should_rewrite_question(question)

\* the delegates are called without the context
DelegateContext_none(context) == NoneText

\* lines 45 and 91: the context handed to the rewrite and to the summarizer
DelegateContext(context) == context

\* what was handed to a delegate
Passed(to, context) == [to |-> to, context |-> DelegateContext(context)]

\* lines 44-47; passed is the history of the contexts handed to delegates
MaybeRewrite ==
    /\ call.pc = "rewrite"
    /\ IF ShouldCallRewrite(call.context, call.question)
       THEN \E outcome \in RewriteOutcomes :
              LET rewritten == Rewritten(outcome)
              IN  call' = [call EXCEPT
                    !.pc = AfterRewrite(outcome),
                    !.log = Append(@, "rewrite"),
                    !.passed = Append(@, Passed("rewrite", call.context)),
                    !.rewritten = rewritten,
                    !.query_question = IF rewritten # << >> THEN rewritten ELSE @]
       ELSE call' = [call EXCEPT !.pc = "search"]
    /\ UNCHANGED <<rows, ncommit, ncalls, upc, uarg, upend>>

\* the answer for no results, with the message for no articles
NoResultsAnswer_wrong(conversation_id) == QAAnswer(MsgNoArticles, << >>, conversation_id)

\* lines 53-57
NoResultsAnswer(conversation_id) == QAAnswer(MsgNoResults, << >>, conversation_id)

\* the question of the caller is searched for
SearchQuery_original(query_question, question) == question

\* line 50: the query of the search
SearchQuery(query_question, question) == query_question

\* lines 88-89 and 350-351: the topic handed to the summarizer
SummaryTopic(query_question, question) == query_question

\* lines 50-57; searched is the history of the query
Search ==
    /\ call.pc = "search"
    /\ \E results \in SearchOutcomes :
         IF results = << >>
         THEN call' = [call EXCEPT
                !.pc = "done",
                !.log = Append(@, "search"),
                !.searched = SearchQuery(call.query_question, call.question),
                !.result = NoResultsAnswer(call.conversation_id)]
         ELSE call' = [call EXCEPT
                !.pc = "fetch", !.k = 1,
                !.log = Append(@, "search"),
                !.searched = SearchQuery(call.query_question, call.question),
                !.search_results = results]
    /\ UNCHANGED <<rows, ncommit, ncalls, upc, uarg, upend>>

\* search_results, all of them
TopResults_all(results) == results

\* search_results[:2]
TopResults(results) == Prefix(results, CitedResults)

\* the citations of the raw search results, with the snippets as found
ResultCitations_raw(results) ==
    [n \in 1..Len(Prefix(results, CitedResults)) |->
       [title |-> results[n].title, url |-> results[n].url,
        snippet |-> results[n].snippet,
        page_id |-> results[n].page_id]]

\* lines 77-82: the citations of the raw search results
ResultCitations(results) ==
    [n \in 1..Len(TopResults(results)) |->
       Citation(results[n].title, results[n].url,
                _clean_snippet(results[n].snippet), results[n].page_id)]

\* lines 75-84
NoArticlesAnswer(results, conversation_id) ==
    QAAnswer(MsgNoArticles, ResultCitations(results), conversation_id)

\* the citation of a fetched article, with the title, the url and the page
\* id of the search result
ArticleCitation_result(article, result) ==
    Citation(result.title, result.url, _clean_snippet(result.snippet), result.page_id)

\* lines 67-72: the citation of a fetched article
ArticleCitation(article, result) ==
    Citation(article.title, article.url, _clean_snippet(result.snippet), article.page_id)

\* the return of line 75 left out: with no article the loop of line 87 does
\* nothing and the answer is made from no article
AfterFetch_noreturn(articles, last) ==
    IF ~last THEN "fetch"
    ELSE IF articles = << >> THEN "answer" ELSE "summarize"

\* lines 63 and 74-75: the next result, or with no article at all the
\* return, or the loop over the articles
AfterFetch(articles, last) ==
    IF ~last THEN "fetch"
    ELSE IF articles = << >> THEN "done" ELSE "summarize"

\* lines 63-84: one round of the loop over the top results, and after the
\* last round the test for no article at all; fetched is the history of
\* what get_article returned
Fetch ==
    /\ call.pc = "fetch"
    /\ LET result == TopResults(call.search_results)[call.k]
           last == call.k = Len(TopResults(call.search_results))
       IN  \E article \in FetchOutcomes(result.title) :
             LET articles == IF article # NoArticle
                             THEN Append(call.articles, article) ELSE call.articles
                 citations == IF article # NoArticle
                              THEN Append(call.citations,
                                          ArticleCitation(article, result))
                              ELSE call.citations
             IN  call' = [call EXCEPT
                   !.log = Append(@, "get_article"),
                   !.fetched = Append(@, article),
                   !.articles = articles,
                   !.citations = citations,
                   !.k = IF last THEN 1 ELSE @ + 1,
                   !.pc = AfterFetch(articles, last),
                   !.result = IF last /\ articles = << >>
                              THEN NoArticlesAnswer(call.search_results,
                                                    call.conversation_id)
                              ELSE @]
    /\ UNCHANGED <<rows, ncommit, ncalls, upc, uarg, upend>>

Min(a, b) == IF a < b THEN a ELSE b

\* _gather_wikipedia_lines, lines 360-375: the number of lines handed to
\* the summarizer, 0 for None; content is the outcome of get_article_content
_gather_wikipedia_lines(article, content) ==
    Min(IF content > 0 THEN content ELSE article.extract.lines, MaxLines)

\* history: what the summarizer did with an article
Attempt(article, r, text) == [article |-> article.title, r |-> r, text |-> text]

\* the loop without its break
AfterAttempt_nobreak(summary_text, last) ==
    IF last THEN "answer" ELSE "summarize"

\* lines 87-94: the loop ends at the first summary (break), or after the
\* last article
AfterAttempt(summary_text, last) ==
    IF Truthy(summary_text) \/ last THEN "answer" ELSE "summarize"

\* lines 87-94 and 344-358: one round of the loop over the articles;
\* topics is the history of the topics handed to the summarizer
Summarize ==
    /\ call.pc = "summarize"
    /\ LET article == call.articles[call.k]
           last == call.k = Len(call.articles)
       IN  \E content \in ContentOutcomes :
             IF _gather_wikipedia_lines(article, content) = 0
             THEN call' = [call EXCEPT
                    !.log = Append(@, "get_article_content"),
                    !.attempts = Append(@, Attempt(article, "skipped", NoneText)),
                    !.summary_text = NoneText,
                    !.k = @ + 1,
                    !.pc = AfterAttempt(NoneText, last)]
             ELSE \E outcome \in SummarizeOutcomes :
                    CASE outcome.r = "ok" ->
                           call' = [call EXCEPT
                             !.log = @ \o << "get_article_content", "summarize" >>,
                             !.topics = Append(@, SummaryTopic(call.query_question,
                                                               call.question)),
                             !.passed = Append(@, Passed("summarize", call.context)),
                             !.attempts = Append(@, Attempt(article, "ok", outcome.text)),
                             !.summary_text = outcome.text,
                             !.k = @ + 1,
                             !.pc = AfterAttempt(outcome.text, last)]
                      [] outcome.r = "client_error" ->
                           call' = [call EXCEPT
                             !.log = @ \o << "get_article_content", "summarize" >>,
                             !.topics = Append(@, SummaryTopic(call.query_question,
                                                               call.question)),
                             !.passed = Append(@, Passed("summarize", call.context)),
                             !.attempts = Append(@, Attempt(article, "failed", NoneText)),
                             !.summary_text = NoneText,
                             !.k = @ + 1,
                             !.pc = AfterAttempt(NoneText, last)]
                      [] outcome.r = "other_error" ->
                           call' = [call EXCEPT
                             !.log = @ \o << "get_article_content", "summarize" >>,
                             !.topics = Append(@, SummaryTopic(call.query_question,
                                                               call.question)),
                             !.passed = Append(@, Passed("summarize", call.context)),
                             !.attempts = Append(@, Attempt(article, "raised", NoneText)),
                             !.error = "summarize",
                             !.pc = "raised"]
    /\ UNCHANGED <<rows, ncommit, ncalls, upc, uarg, upend>>

\* the question of the caller, whatever the query is
SynthQuestion_original(query_question, question) == question

\* line 100: query_question or question
SynthQuestion(query_question, question) ==
    IF query_question # << >> THEN query_question ELSE question

\* the question that was searched for
ContextQuestion_query(question, query_question) == query_question

\* line 108: the question handed to the upsert
ContextQuestion(question, query_question) == question

\* lines 96-110: the answer text, and the call of the upsert
Answer ==
    /\ call.pc = "answer"
    /\ LET synth == ~Truthy(call.summary_text)
           synth_question == SynthQuestion(call.query_question, call.question)
           answer_text == IF synth
                          THEN _synthesize_answer(synth_question, call.articles)
                          ELSE call.summary_text
           update == HasKey(call.conversation_id, call.installation_id)
       IN  /\ call' = [call EXCEPT
                !.answer_text = answer_text,
                !.synth_question = IF synth THEN synth_question ELSE @,
                !.parts = IF synth THEN AnswerParts(synth_question, call.articles)
                          ELSE @,
                !.log = (IF synth THEN Append(@, "synthesize") ELSE @)
                          \o (IF update THEN << "context_write" >> ELSE << >>),
                !.pc = IF update THEN "update" ELSE "return"]
           /\ IF update
              THEN /\ upc' = [upc EXCEPT ![Caller] = "called"]
                   /\ uarg' = [uarg EXCEPT ![Caller] =
                        [conversation_id |-> call.conversation_id,
                         installation_id |-> call.installation_id,
                         question |-> ContextQuestion(call.question,
                                                      call.query_question),
                         answer |-> answer_text]]
              ELSE UNCHANGED <<upc, uarg>>
    /\ UNCHANGED <<rows, ncommit, ncalls, upend>>

\* lines 112-116: the call returns its answer, or the error that left the
\* upsert goes on to the caller
Return ==
    /\ \/ call.pc = "return"
       \/ call.pc = "update" /\ upc[Caller] \in {"done", "raised"}
    /\ IF call.pc = "update" /\ upc[Caller] = "raised"
       THEN call' = [call EXCEPT !.pc = "raised", !.error = "context_write"]
       ELSE call' = [call EXCEPT
              !.pc = "done",
              !.result = QAAnswer(call.answer_text, call.citations, call.conversation_id)]
    /\ upc' = [upc EXCEPT ![Caller] = "idle"]
    /\ uarg' = [uarg EXCEPT ![Caller] = NoArgs]
    /\ UNCHANGED <<rows, ncommit, ncalls, upend>>

Next ==
    \/ Call
    \/ MaybeRewrite
    \/ Search
    \/ Fetch
    \/ Summarize
    \/ Answer
    \/ UpsertRead(Caller)
    \/ UpsertCommit(Caller)
    \/ Return

\* calls of answer_question, one after another
Spec == Init /\ [][Next]_vars

NextSeqStore ==
    \/ UpsertCall(Caller)
    \/ UpsertRead(Caller)
    \/ UpsertCommit(Caller)
    \/ UpsertReturn(Caller)

\* one worker that calls the upsert directly, one call after another
SeqStoreSpec == Init /\ [][NextSeqStore]_vars

(***************************************************************************)
(* _should_rewrite_question alone, on questions made of a few words.       *)
(***************************************************************************)
\* the pieces of the questions asked: words with and without a pronoun in
\* them, and the empty piece for additional white space
AskedWords == {"", "it", "It", "its", "it's", "other", "cats"}

RECURSIVE AskedQuestions(_)
\* the questions of at most n pieces
AskedQuestions(n) ==
    IF n = 0 THEN { << >> }
    ELSE LET shorter == AskedQuestions(n - 1)
         IN  shorter \cup { Append(q, w) : q \in { r \in shorter : Len(r) = n - 1 },
                                          w \in AskedWords }

InitRewrite ==
    /\ rows = << >>
    /\ ncommit = [key \in Keys |-> 0]
    /\ ncalls = 0
    /\ upc = [p \in Procs |-> "idle"]
    /\ uarg = [p \in Procs |-> NoArgs]
    /\ upend = [p \in Procs |-> NoWrite]
    /\ \E q \in AskedQuestions(MaxAskedWords) :
         call = [IdleCall EXCEPT !.pc = "asked", !.question = q]

\* lines 302-317: the test is applied to the question
ShouldRewrite ==
    /\ call.pc = "asked"
    /\ call' = [call EXCEPT !.pc = "decided",
                            !.result = _should_rewrite_question(call.question)]
    /\ UNCHANGED <<rows, ncommit, ncalls, upc, uarg, upend>>

NextRewrite == ShouldRewrite

\* the rewrite test applied to one question
RewriteSpec == InitRewrite /\ [][NextRewrite]_vars

(***************************************************************************)
(* _synthesize_answer alone, on a question and one or two articles.        *)
(***************************************************************************)
\* the sentences that the extracts are made of: "Cats purr", "Cats are
\* small domesticated mammals", "The history of cats spans ten thousand
\* years", "Dogs bark at night in the garden"
SynthSentences ==
    { Sent("cats-short", 9, {"cats"}),
      Sent("cats-long", 35, {"cats"}),
      Sent("cats-history", 44, {"cats", "history"}),
      Sent("dogs", 32, {}) }

RECURSIVE SynthExtracts(_)
\* the lists of at most n of these sentences
SynthExtracts(n) ==
    IF n = 0 THEN { << >> }
    ELSE LET shorter == SynthExtracts(n - 1)
         IN  shorter \cup { Append(e, x) : e \in { r \in shorter : Len(r) = n - 1 },
                                          x \in SynthSentences }

\* "[1]", what the clean_text of line 129 or 160 leaves of the sentence
\* "[<b>1]" of an extract (the reference markers go before the tags), and
\* what the clean_text of line 170 removes whole
RefMarker == [Sent("[1]", 3, {}) EXCEPT !.slack = 3]

\* the extracts with such a sentence
MarkerExtracts ==
    { e \in SeqsOver({RefMarker, Sent("cats-short", 9, {"cats"})}, MaxMarkerSents) :
        \E n \in 1..Len(e) : e[n] = RefMarker }

\* the article "Kitten" with the extract of these sentences, a full stop
\* after each
SynthArticle(sents) ==
    [title |-> "Kitten",
     extract |-> [sents |-> sents, terminated |-> TRUE, lines |-> 1],
     url |-> "https://en.wikipedia.org/wiki/Kitten", page_id |-> 99]

\* one article, or that article and the article "Felidae" after it
SynthArticleLists ==
    { << SynthArticle(e) >> : e \in SynthExtracts(MaxExtractSents) \cup MarkerExtracts }
      \cup { << SynthArticle(e), WikipediaArticle("Felidae") >> :
               e \in SynthExtracts(MaxExtractSents) }

InitSynth ==
    /\ rows = << >>
    /\ ncommit = [key \in Keys |-> 0]
    /\ ncalls = 0
    /\ upc = [p \in Procs |-> "idle"]
    /\ uarg = [p \in Procs |-> NoArgs]
    /\ upend = [p \in Procs |-> NoWrite]
    /\ \E q \in Questions, articles \in SynthArticleLists :
         call = [IdleCall EXCEPT !.pc = "synthesize", !.question = q,
                                 !.synth_question = q, !.articles = articles]

\* lines 118-176: the synthesizer is applied
Synthesize ==
    /\ call.pc = "synthesize"
    /\ call' = [call EXCEPT
          !.pc = "synthesized",
          !.parts = AnswerParts(call.synth_question, call.articles),
          !.answer_text = _synthesize_answer(call.synth_question, call.articles)]
    /\ UNCHANGED <<rows, ncommit, ncalls, upc, uarg, upend>>

NextSynth == Synthesize

\* the synthesizer applied to one question and one list of articles
SynthSpec == InitSynth /\ [][NextSynth]_vars

(***************************************************************************)
(* format_citations_for_slack alone, on lists of citations.  The text it   *)
(* returns is modelled by the list of its lines.                           *)
(***************************************************************************)
MaxCitations == 2

\* the characters that make format_citations_for_slack clean the snippet
\* again: "<" and "&", the latter also as the start of an entity
MarkupChars == {"<", "&", "&lt;", "&gt;", "&amp;"}

\* the snippet is put into the line as it is
FormatSnippet_raw(snippet) == snippet

\* lines 287-289: the snippet of the line
FormatSnippet(snippet) ==
    IF \E k \in 1..Len(snippet) : snippet[k].c \in MarkupChars
    THEN _clean_snippet(snippet)
    ELSE snippet

\* lines 290-293: the line of one citation, with or without a snippet part
CitationLine(citation) ==
    LET snippet == FormatSnippet(citation.snippet)
    IN  IF snippet # << >>
        THEN [kind |-> "citation", url |-> citation.url, title |-> citation.title,
              snippet |-> snippet]
        ELSE [kind |-> "citation", url |-> citation.url, title |-> citation.title]

\* "\n\n*Sources:*": two empty lines and the header line
SourcesHeader == << [kind |-> "empty"], [kind |-> "empty"], [kind |-> "header"] >>

\* lines 280-295; the empty list of lines is the empty string
format_citations_for_slack(citations) ==
    IF citations = << >> THEN << >>
    ELSE SourcesHeader \o [n \in 1..Len(citations) |-> CitationLine(citations[n])]

\* the snippets of the citations formatted: the snippets of the search
\* results as found and as cleaned, a snippet of nothing but a tag
\* (<br/>), a snippet of an escaped tag (&lt;br/&gt;), and a plain word
FormatSnippets ==
    { RawSnippet(title) : title \in Titles }
      \cup { _clean_snippet(RawSnippet(title)) : title \in Titles }
      \cup { << Run("<", 1), Run("x", 3), Run(">", 1) >>,
             << Run("&lt;", 1), Run("x", 3), Run("&gt;", 1) >>,
             << Run("x", 4) >> }

FormatCitations ==
    { Citation(title, "https://en.wikipedia.org/wiki/" \o title, snippet, PageIdOf(title)) :
        title \in {"Cats", "Felidae"}, snippet \in FormatSnippets }

InitFormat ==
    /\ rows = << >>
    /\ ncommit = [key \in Keys |-> 0]
    /\ ncalls = 0
    /\ upc = [p \in Procs |-> "idle"]
    /\ uarg = [p \in Procs |-> NoArgs]
    /\ upend = [p \in Procs |-> NoWrite]
    /\ \E citations \in SeqsOver(FormatCitations, MaxCitations) :
         call = [IdleCall EXCEPT !.pc = "format", !.citations = citations]

\* lines 280-295: the citations are formatted
Format ==
    /\ call.pc = "format"
    /\ call' = [call EXCEPT !.pc = "formatted",
                            !.result = format_citations_for_slack(call.citations)]
    /\ UNCHANGED <<rows, ncommit, ncalls, upc, uarg, upend>>

NextFormat == Format

\* the formatter applied to one list of citations
FormatSpec == InitFormat /\ [][NextFormat]_vars

(***************************************************************************)
(* WikipediaClient.search and WikipediaClient.get_article alone, on the    *)
(* answers of the HTTP server.  A request ends with a transport error or   *)
(* with a response, which has a status and a body; the body is not JSON,   *)
(* or it is the JSON object it encodes.                                    *)
(***************************************************************************)
NotJson == [kind |-> "not json"]

\* a JSON object with the fields S of the object full
Fields(full, S) == [f \in S |-> full[f]]

\* the entry of a search response for a title
SearchItem(title) ==
    [title |-> title, snippet |-> RawSnippet(title), pageid |-> PageIdOf(title)]

\* entries with all their fields, and entries that lack one
SearchItems ==
    { SearchItem(title) : title \in {"Cats", "Felidae"} }
      \cup { Fields(SearchItem("Cats"), {"title", "snippet", "pageid"} \ {f}) :
               f \in {"title", "snippet", "pageid"} }

\* the bodies of the search responses: no "query", no "search", or a list
\* of entries
SearchBodies ==
    { << >>, [query |-> << >>] }
      \cup { [query |-> [search |-> items]] : items \in SeqsOver(SearchItems, SearchLimit) }

\* the page summary of "Kitten"
SummaryData ==
    [title |-> "Kitten", extract |-> ExtractOf("Kitty"),
     content_urls |-> [desktop |-> [page |-> "https://en.wikipedia.org/wiki/Kitten"]],
     pageid |-> 99]

\* the bodies of the summary responses: the summary with some of its fields
SummaryBodies == { Fields(SummaryData, S) : S \in SUBSET DOMAIN SummaryData }

\* the bodies of the sections responses
SectionsBodies ==
    { << >>, [sections |-> << >>],
      [sections |-> << [title |-> "Etymology"], [title |-> "Behavior"] >>],
      [sections |-> << [title |-> "Etymology"], [id |-> 2] >>] }

StatusCodes == {200, 404, 500}

\* what client.get gives: a transport error (no connection, timeout), or a
\* response
HttpOutcomes(bodies) ==
    { [kind |-> "transport_error"] }
      \cup { [kind |-> "response", status |-> s, body |-> b] :
               s \in StatusCodes, b \in bodies \cup {NotJson} }

Raise(exc) == [exc |-> exc]
Value(v) == [exc |-> "", value |-> v]

\* client.get, raise_for_status and response.json: the decoded body, or
\* the exception of the first of them that fails
ErrorStatus == 400
Decode(outcome) ==
    IF outcome.kind = "transport_error" THEN Raise("httpx.TransportError")
    ELSE IF outcome.status >= ErrorStatus THEN Raise("httpx.HTTPStatusError")
    ELSE IF outcome.body = NotJson THEN Raise("json.JSONDecodeError")
    ELSE Value(outcome.body)

\* only the errors of httpx are caught
Caught_httpx(exc) == exc \in {"httpx.TransportError", "httpx.HTTPStatusError"}

\* except Exception: all of these exceptions are caught
Caught(exc) == TRUE

\* lines 37-63: the body of the try block of search
search_try(outcome) ==
    LET data == Decode(outcome)
    IN  IF data.exc # "" THEN data
        ELSE LET items == Get(Get(data.value, "query", << >>), "search", << >>)
             IN  IF \E n \in 1..Len(items) : DOMAIN items[n] # DOMAIN SearchItem("Cats")
                 THEN Raise("KeyError")
                 ELSE Value([n \in 1..Len(items) |->
                        [title |-> items[n].title, snippet |-> items[n].snippet,
                         url |-> "https://en.wikipedia.org/wiki/" \o items[n].title,
                         page_id |-> items[n].pageid]])

\* lines 36-67
search(outcome) ==
    LET r == search_try(outcome)
    IN  IF r.exc # "" /\ Caught(r.exc) THEN Value(<< >>) ELSE r

\* lines 96-107
_get_article_sections(outcome) ==
    LET data == Decode(outcome)
    IN  IF data.exc # "" THEN << >>
        ELSE LET sections == Get(data.value, "sections", << >>)
             IN  IF \E n \in 1..Len(sections) : "title" \notin DOMAIN sections[n]
                 THEN << >>
                 ELSE [n \in 1..Len(sections) |-> sections[n].title]

\* lines 71-88: the body of the try block of get_article; the sections are
\* asked for only when the summary has an extract
get_article_try(summary, sections) ==
    LET data == Decode(summary)
    IN  IF data.exc # "" THEN data
        ELSE IF "extract" \notin DOMAIN data.value THEN Value(NoArticle)
        ELSE IF DOMAIN data.value # DOMAIN SummaryData THEN Raise("KeyError")
        ELSE Value([title |-> data.value.title, extract |-> data.value.extract,
                    url |-> data.value.content_urls.desktop.page,
                    page_id |-> data.value.pageid,
                    sections |-> _get_article_sections(sections)])

\* lines 69-94
get_article(summary, sections) ==
    LET r == get_article_try(summary, sections)
    IN  IF r.exc # "" /\ Caught(r.exc) THEN Value(NoArticle) ELSE r

\* no request made
NoOutcome == [kind |-> "none"]

IdleGateway ==
    [pc |-> "idle", op |-> "", summary |-> NoOutcome, sections |-> NoOutcome,
     outcome |-> NoOutcome, result |-> Value(NoneText)]

InitGateway ==
    /\ rows = << >>
    /\ ncommit = [key \in Keys |-> 0]
    /\ ncalls = 0
    /\ upc = [p \in Procs |-> "idle"]
    /\ uarg = [p \in Procs |-> NoArgs]
    /\ upend = [p \in Procs |-> NoWrite]
    /\ call = IdleGateway

\* a call of search, with the answer of the server to its request
GatewaySearch ==
    /\ call.pc = "idle"
    /\ \E outcome \in HttpOutcomes(SearchBodies) :
         call' = [call EXCEPT !.pc = IF search(outcome).exc = "" THEN "returned" ELSE "raised",
                              !.op = "search", !.outcome = outcome,
                              !.result = search(outcome)]
    /\ UNCHANGED <<rows, ncommit, ncalls, upc, uarg, upend>>

\* a call of get_article up to the answer to its summary request: it ends
\* here unless the summary has an extract
GatewaySummary ==
    /\ call.pc = "idle"
    /\ \E summary \in HttpOutcomes(SummaryBodies) :
         LET data == Decode(summary)
             r == get_article(summary, NoOutcome)
         IN  IF data.exc = "" /\ "extract" \in DOMAIN data.value
             THEN call' = [call EXCEPT !.pc = "sections", !.op = "get_article",
                                       !.summary = summary]
             ELSE call' = [call EXCEPT !.pc = IF r.exc = "" THEN "returned" ELSE "raised",
                                       !.op = "get_article", !.summary = summary,
                                       !.result = r]
    /\ UNCHANGED <<rows, ncommit, ncalls, upc, uarg, upend>>

\* the rest of the call, with the answer to the sections request
GatewaySections ==
    /\ call.pc = "sections"
    /\ \E sections \in HttpOutcomes(SectionsBodies) :
         LET r == get_article(call.summary, sections)
         IN  call' = [call EXCEPT !.pc = IF r.exc = "" THEN "returned" ELSE "raised",
                                  !.sections = sections, !.result = r]
    /\ UNCHANGED <<rows, ncommit, ncalls, upc, uarg, upend>>

NextGateway == GatewaySearch \/ GatewaySummary \/ GatewaySections

\* one call of search or of get_article
GatewaySpec == InitGateway /\ [][NextGateway]_vars

(***************************************************************************)
(* The installation flow of main.py: /install and /oauth/callback.  In     *)
(* this specification the variable call holds the state of the web         *)
(* application: the dictionary oauth_states and the requests it handles.   *)
(* The handlers are coroutines of one event loop: a handler runs alone     *)
(* from one await to the next.                                             *)
(***************************************************************************)
MaxInstalls == 2
MaxRequests == 3

Requests == 1..MaxRequests

\* secrets.token_urlsafe(32): the n-th token issued; 256 random bits, no
\* token is issued twice
Token(n) == "state-" \o ToString(n)

\* the forms of the query parameters code, state and error; "" is a
\* parameter that is missing or empty
Codes == {"", "code"}
Errors == {"", "access_denied"}
CallbackStates(issued) == {"", "forged"} \cup { Token(n) : n \in 1..issued }

\* handle_oauth_callback from the token exchange on: the installation is
\* stored, or an HTTPException or another exception leaves it
ExchangeOutcomes == {"ok", "http_exception", "other_exception"}

BadRequest == 400
Redirect == 307
Ok == 200

NewRequest == [pc |-> "new"]

\* the state stays in the dictionary
AfterUse_kept(states, state) == states

\* main.py:72: del oauth_states[state]
AfterUse(states, state) == states \ {state}

InitOAuth ==
    /\ rows = << >>
    /\ ncommit = [key \in Keys |-> 0]
    /\ ncalls = 0
    /\ upc = [p \in Procs |-> "idle"]
    /\ uarg = [p \in Procs |-> NoArgs]
    /\ upend = [p \in Procs |-> NoWrite]
    /\ call = [oauth_states |-> { }, issued |-> 0,
               req |-> [r \in Requests |-> NewRequest]]

\* main.py:43-51: GET /install
Install(r) ==
    /\ call.req[r].pc = "new"
    /\ call.issued < MaxInstalls
    /\ LET state == Token(call.issued + 1)
       IN  call' = [call EXCEPT
             !.issued = @ + 1,
             !.oauth_states = @ \cup {state},
             !.req[r] = [pc |-> "done", path |-> "/install", state |-> state,
                         status |-> Redirect]]
    /\ UNCHANGED <<rows, ncommit, ncalls, upc, uarg, upend>>

\* main.py:54-75: GET /oauth/callback up to the await of
\* handle_oauth_callback; pending records whether the state was in the
\* dictionary when the request came
OAuthCallback(r) ==
    /\ call.req[r].pc = "new"
    /\ \E code \in Codes, state \in CallbackStates(call.issued), error \in Errors :
         LET request == [path |-> "/oauth/callback", code |-> code, state |-> state,
                         error |-> error, pending |-> state \in call.oauth_states,
                         exchanged |-> FALSE]
             rejected == [pc |-> "done", status |-> BadRequest] @@ request
         IN  IF error # "" THEN call' = [call EXCEPT !.req[r] = rejected]
             ELSE IF code = "" \/ state = "" THEN call' = [call EXCEPT !.req[r] = rejected]
             ELSE IF state \notin call.oauth_states
                  THEN call' = [call EXCEPT !.req[r] = rejected]
             ELSE call' = [call EXCEPT
                    !.oauth_states = AfterUse(@, state),
                    !.req[r] = [pc |-> "exchange"] @@ request]
    /\ UNCHANGED <<rows, ncommit, ncalls, upc, uarg, upend>>

\* main.py:74-123 and oauth.py:51-89: the code is exchanged for tokens and
\* the installation stored; every exception ends in the page "Installation
\* Failed", which is a response of status 200
TokenExchange(r) ==
    /\ call.req[r].pc = "exchange"
    /\ \E outcome \in ExchangeOutcomes :
         call' = [call EXCEPT
           !.req[r] = [pc |-> "done", status |-> Ok, exchanged |-> TRUE,
                       page |-> IF outcome = "ok" THEN "Installation Successful"
                                ELSE "Installation Failed"] @@ @]
    /\ UNCHANGED <<rows, ncommit, ncalls, upc, uarg, upend>>

NextOAuth == \E r \in Requests : Install(r) \/ OAuthCallback(r) \/ TokenExchange(r)

\* the requests of the installation flow, in any order
OAuthSpec == InitOAuth /\ [][NextOAuth]_vars

(***************************************************************************)
(* The Installation table of oauth.py: _store_installation,                *)
(* deactivate_installation and get_installation_by_team_id, called one     *)
(* after the other.  In this specification the variable call holds the     *)
(* table and, as history, the last operation on each team and the last     *)
(* one that was committed.                                                 *)
(***************************************************************************)
MaxInstallOps == 4

Teams == {"T1", "T2"}
AccessTokens == {"xoxb-1", "xoxb-2"}

\* no row, or no operation yet
NoInstallation == [kind |-> "none"]

\* the session of an operation: every statement succeeds, or one of them
\* (the query, the commit) fails
SessionOutcomes == {"ok", "stmt_fail"}

\* the query finds no row
Existing_never(table, team_id) == 0

\* session.query(Installation).filter(Installation.team_id == team_id)
\* .first(): the primary key of the row found, 0 for None
Existing(table, team_id) ==
    LET found == { id \in 1..Len(table) : table[id].team_id = team_id }
    IN  IF found = { } THEN 0 ELSE CHOOSE id \in found : \A other \in found : id <= other

\* oauth.py:216-232
get_installation_by_team_id(table, team_id) ==
    LET found == { id \in 1..Len(table) :
                     table[id].team_id = team_id /\ table[id].is_active }
    IN  IF found = { } THEN NoInstallation
        ELSE table[CHOOSE id \in found : \A other \in found : id <= other]

InitInstall ==
    /\ rows = << >>
    /\ ncommit = [key \in Keys |-> 0]
    /\ ncalls = 0
    /\ upc = [p \in Procs |-> "idle"]
    /\ uarg = [p \in Procs |-> NoArgs]
    /\ upend = [p \in Procs |-> NoWrite]
    /\ call = [installations |-> << >>, nops |-> 0,
               last |-> [team \in Teams |-> NoInstallation],
               committed |-> [team \in Teams |-> NoInstallation],
               result |-> NoneText]

\* oauth.py:158-214: the row of the team is updated, or a row is added; a
\* failed statement rolls the session back and raises HTTPException(500)
StoreInstallation ==
    /\ call.nops < MaxInstallOps
    /\ \E team_id \in Teams, access_token \in AccessTokens, outcome \in SessionOutcomes :
         LET existing == Existing(call.installations, team_id)
             op == [op |-> "store_installation", ok |-> outcome = "ok"]
         IN  IF outcome = "ok"
             THEN call' = [call EXCEPT
                    !.installations =
                       IF existing # 0
                       THEN [@ EXCEPT ![existing].bot_token = access_token,
                                      ![existing].is_active = TRUE]
                       ELSE Append(@, [id |-> Len(@) + 1, team_id |-> team_id,
                                       bot_token |-> access_token, is_active |-> TRUE]),
                    !.nops = @ + 1,
                    !.last[team_id] = op,
                    !.committed[team_id] = op,
                    !.result = IF existing # 0 THEN existing
                               ELSE Len(call.installations) + 1]
             ELSE call' = [call EXCEPT !.nops = @ + 1, !.last[team_id] = op,
                                       !.result = "HTTPException(500)"]
    /\ UNCHANGED <<rows, ncommit, ncalls, upc, uarg, upend>>

\* oauth.py:234-263: the row of the team is marked inactive; False when
\* there is no row or a statement fails
DeactivateInstallation ==
    /\ call.nops < MaxInstallOps
    /\ \E team_id \in Teams, outcome \in SessionOutcomes :
         LET installation == Existing(call.installations, team_id)
             done == outcome = "ok" /\ installation # 0
             op == [op |-> "deactivate_installation", ok |-> done]
         IN  call' = [call EXCEPT
                !.installations =
                   IF done THEN [@ EXCEPT ![installation].is_active = FALSE] ELSE @,
                !.nops = @ + 1,
                !.last[team_id] = op,
                !.committed[team_id] = IF done THEN op ELSE @,
                !.result = done]
    /\ UNCHANGED <<rows, ncommit, ncalls, upc, uarg, upend>>

NextInstall == StoreInstallation \/ DeactivateInstallation

\* installations stored and deactivated, one operation at a time
InstallSpec == InitInstall /\ [][NextInstall]_vars

(***************************************************************************)
(* The Slack endpoints of slack_app.py: verify_slack_signature and the     *)
(* three endpoints that call it.  In this specification the variable call  *)
(* holds the signing secret of the process and the request handled.  An    *)
(* HMAC is modelled by the key and the message it was computed from.       *)
(***************************************************************************)
\* SLACK_SIGNING_SECRET: not set, or set
NoSecret == ""
SigningSecrets == {NoSecret, "secret"}

SlackPaths == {"/slack/events", "/slack/commands", "/slack/interactive"}

\* time.time() when the request is verified, and the tolerance in seconds
Now == 1000
Tolerance == 300

\* the header X-Slack-Request-Timestamp: missing or empty, not a number,
\* or a time around the limits of the tolerance
TimestampHeaders == {"", "abc", "699", "700", "1000", "1300", "1301"}

\* text does not spell an integer: int(text) raises ValueError
NotAnInt == -1

\* int(timestamp)
int(text) ==
    CASE text = "699" -> 699 [] text = "700" -> 700 [] text = "1000" -> 1000
      [] text = "1300" -> 1300 [] text = "1301" -> 1301 [] OTHER -> NotAnInt

Bodies == {"{}", "{\"type\": \"event_callback\"}"}

\* "v0=" + hmac.new(secret, b"v0:" + timestamp + b":" + body, sha256).hexdigest()
Sign(secret, timestamp, body) ==
    [v0 |-> [key |-> secret, msg |-> <<"v0", timestamp, body>>]]

\* the header X-Slack-Signature: missing or empty, or a signature made
\* with some key of some timestamp and body
\* no header X-Slack-Signature, or an empty one
NoSignature == [v0 |-> [key |-> "", msg |-> << >>]]

\* a header with a character that is not ASCII in it
NonAsciiSignature == [v0 |-> [key |-> "\\xe9", msg |-> << >>]]

SignatureHeaders ==
    {NoSignature, NonAsciiSignature} \cup { Sign(secret, timestamp, body) :
                  secret \in {"secret", "guess"}, timestamp \in TimestampHeaders,
                  body \in Bodies }

abs(x) == IF x < 0 THEN -x ELSE x

\* hmac.compare_digest on two strings: TypeError unless both are ASCII
compare_digest(a, b) ==
    IF NonAsciiSignature \in {a, b} THEN Raise("TypeError") ELSE Value(a = b)

\* slack_app.py:82-120: the value returned, or the exception raised
verify_slack_signature(secret, timestamp, signature, body) ==
    IF secret = NoSecret THEN Value(TRUE)
    ELSE IF timestamp = "" \/ signature = NoSignature THEN Value(FALSE)
    ELSE IF int(timestamp) = NotAnInt THEN Raise("ValueError")
    ELSE IF abs(Now - int(timestamp)) > Tolerance THEN Value(FALSE)
    ELSE compare_digest(Sign(secret, timestamp, body), signature)

ServerError == 500

InitSlack ==
    /\ rows = << >>
    /\ ncommit = [key \in Keys |-> 0]
    /\ ncalls = 0
    /\ upc = [p \in Procs |-> "idle"]
    /\ uarg = [p \in Procs |-> NoArgs]
    /\ upend = [p \in Procs |-> NoWrite]
    /\ \E secret \in SigningSecrets :
         call = [pc |-> "listening", secret |-> secret]

\* slack_app.py:445-482: an endpoint receives a request and verifies it:
\* status 400 when the verification returns False, status 500 when it
\* raises, and otherwise the request goes on to the handler
SlackEndpoint ==
    /\ call.pc = "listening"
    /\ \E path \in SlackPaths, timestamp \in TimestampHeaders,
          signature \in SignatureHeaders, body \in Bodies :
         LET verified == verify_slack_signature(call.secret, timestamp, signature, body)
             request == [path |-> path, timestamp |-> timestamp,
                         signature |-> signature, body |-> body,
                         secret |-> call.secret, verified |-> verified,
                         handled |-> FALSE]
         IN  IF verified.exc # ""
             THEN call' = [pc |-> "done", status |-> ServerError] @@ request
             ELSE IF ~verified.value
                  THEN call' = [pc |-> "done", status |-> BadRequest] @@ request
                  ELSE call' = [pc |-> "handle"] @@ request
    /\ UNCHANGED <<rows, ncommit, ncalls, upc, uarg, upend>>

\* handler.handle(request): the request is passed to the Bolt handler
SlackHandle ==
    /\ call.pc = "handle"
    /\ call' = [call EXCEPT !.pc = "done", !.handled = TRUE]
    /\ UNCHANGED <<rows, ncommit, ncalls, upc, uarg, upend>>

NextSlack == SlackEndpoint \/ SlackHandle

\* one request to one of the Slack endpoints
SlackSpec == InitSlack /\ [][NextSlack]_vars

(***************************************************************************)
(* The database sessions of the context read (qa.py:206-232), the context  *)
(* upsert (qa.py:234-278) and the Q&A log write (slack_app.py:419-439),    *)
(* statement by statement.  events is the history of what was done with    *)
(* the session of the call in progress.                                    *)
(***************************************************************************)
MaxSessionOps == 3    \* calls of the three functions in one behaviour

SessionOps == {"read", "upsert", "persist"}

\* qa.py:216 and 243 open the session inside the try, slack_app.py:421
\* before it
OpensInsideTry(op) == op \in {"read", "upsert"}

\* what the statements of the try block come to: the record was found, it
\* was absent, or a statement raised
BodyOutcomes(op) ==
    IF op = "persist" THEN {"added", "error"} ELSE {"found", "absent", "error"}

\* the function writes
Writes(op) == op \in {"upsert", "persist"}

\* qa.py:228-230, qa.py:274-276, slack_app.py:435-437: what the handler
\* does with the session
Handler(op) == IF Writes(op) THEN << "rollback" >> ELSE << >>

\* the session is closed at the end of the try block only
ClosesAfter_body(pending) == pending = "return"

\* qa.py:231-232, qa.py:277-278, slack_app.py:438-439: finally closes on
\* every path
ClosesAfter(pending) == TRUE

IdleSession ==
    [pc |-> "idle", op |-> "", session |-> "unbound", events |-> << >>,
     pending |-> "", nops |-> 0]

InitSession ==
    /\ rows = << >>
    /\ ncommit = [key \in Keys |-> 0]
    /\ ncalls = 0
    /\ upc = [p \in Procs |-> "idle"]
    /\ uarg = [p \in Procs |-> NoArgs]
    /\ upend = [p \in Procs |-> NoWrite]
    /\ call = IdleSession

\* one of the three functions is called; the read without a key returns at
\* qa.py:212-213 before any session
SessionCall ==
    /\ call.pc \in {"idle", "returned", "raised"}
    /\ call.nops < MaxSessionOps
    /\ \E op \in SessionOps, haskey \in BOOLEAN :
         /\ haskey \/ op = "read"
         /\ call' = [IdleSession EXCEPT
               !.op = op, !.nops = call.nops + 1,
               !.pc = IF haskey THEN "open" ELSE "returned"]
    /\ UNCHANGED <<rows, ncommit, ncalls, upc, uarg, upend>>

\* get_db_session(): the session, or an exception, which the try catches
\* where the call is inside it
SessionOpen ==
    /\ call.pc = "open"
    /\ \E outcome \in {"ok", "open_fail"} :
         IF outcome = "ok"
         THEN call' = [call EXCEPT !.pc = "body", !.session = "open",
                                   !.events = Append(@, "open")]
         ELSE call' = [call EXCEPT
                !.events = Append(@, "open_failed"),
                !.pc = IF OpensInsideTry(call.op) THEN "except" ELSE "raised"]
    /\ UNCHANGED <<rows, ncommit, ncalls, upc, uarg, upend>>

\* the statements of the try block, to the commit of a write or to the
\* first exception
SessionBody ==
    /\ call.pc = "body"
    /\ \E outcome \in BodyOutcomes(call.op) :
         IF outcome = "error"
         THEN call' = [call EXCEPT !.pc = "except", !.events = Append(@, "error")]
         ELSE call' = [call EXCEPT
                !.pc = "finally", !.pending = "return",
                !.events = Append(@, outcome)
                             \o (IF Writes(call.op) THEN << "commit" >> ELSE << >>)]
    /\ UNCHANGED <<rows, ncommit, ncalls, upc, uarg, upend>>

\* except Exception: the handler; session.rollback() on a name that was
\* never bound raises UnboundLocalError, and a rollback can fail
SessionExcept ==
    /\ call.pc = "except"
    /\ IF Handler(call.op) = << >>
       THEN call' = [call EXCEPT !.pc = "finally", !.pending = "return"]
       ELSE IF call.session = "unbound"
            THEN call' = [call EXCEPT !.pc = "finally", !.pending = "raise"]
            ELSE \E outcome \in {"ok", "fail"} :
                   call' = [call EXCEPT
                      !.pc = "finally",
                      !.events = @ \o Handler(call.op),
                      !.pending = IF outcome = "ok" THEN "return" ELSE "raise"]
    /\ UNCHANGED <<rows, ncommit, ncalls, upc, uarg, upend>>

\* finally: session.close(), which raises UnboundLocalError on a name that
\* was never bound; then the return or the exception on its way
SessionFinally ==
    /\ call.pc = "finally"
    /\ IF ~ClosesAfter(call.pending)
       THEN call' = [call EXCEPT
              !.pc = IF call.pending = "raise" THEN "raised" ELSE "returned"]
       ELSE IF call.session = "unbound"
            THEN call' = [call EXCEPT !.pc = "raised"]
            ELSE call' = [call EXCEPT
                   !.session = "closed", !.events = Append(@, "close"),
                   !.pc = IF call.pending = "raise" THEN "raised" ELSE "returned"]
    /\ UNCHANGED <<rows, ncommit, ncalls, upc, uarg, upend>>

NextSession ==
    \/ SessionCall
    \/ SessionOpen
    \/ SessionBody
    \/ SessionExcept
    \/ SessionFinally

\* calls of the three functions, one after another
SessionSpec == InitSession /\ [][NextSession]_vars

(***************************************************************************)
(* The loop of qa.py:87-94 over the fetched articles, with the texts line  *)
(* by line: _gather_wikipedia_lines (qa.py:360-375) and the call of the    *)
(* summarizer (qa.py:344-358).  handed is the history of what the          *)
(* summarizer was called with.                                             *)
(***************************************************************************)
MaxContentLines == 12  \* lines of the full content of an article
MaxBlanks == 2         \* blank lines among them, unless all are blank

\* a line of text: its words, and the white space before them
TextLine(n) == [id |-> n, lead |-> n % 2]

\* a line of white space, or of nothing
BlankLine(n) == [id |-> 0, lead |-> n % 2]

\* line.strip()
strip_line(line) == [id |-> line.id, lead |-> 0]

\* `if line.strip()`
NonEmptyLine(line) == strip_line(line) # [id |-> 0, lead |-> 0]

\* a text as the list of its lines, splitlines(); the empty string has none
TextOf(lines) == [kind |-> "text", lines |-> lines]

\* the texts of n lines with the lines of blanks blank
LinesWith(n, blanks) ==
    TextOf([i \in 1..n |-> IF i \in blanks THEN BlankLine(i) ELSE TextLine(i)])

\* get_article_content: None, or the plain text
Contents ==
    { NoneText }
      \cup { LinesWith(n, blanks) :
               n \in 0..MaxContentLines,
               blanks \in { b \in SUBSET (1..MaxContentLines) :
                              Cardinality(b) <= MaxBlanks } }
      \cup { LinesWith(n, 1..n) : n \in 1..MaxContentLines }

\* article.extract: empty, blank, or a line of text after a blank line
Extracts ==
    { TextOf(<< >>), TextOf(<< BlankLine(1) >>),
      TextOf(<< BlankLine(2), [id |-> 100, lead |-> 1] >>) }

\* `not content`: None or the empty string
Falsy(text) == text = NoneText \/ text.lines = << >>

\* the extract also stands in for a content without a line of text
ContentOrExtract_nolines(content, extract) ==
    IF Falsy(content) \/ \A i \in 1..Len(content.lines) : ~NonEmptyLine(content.lines[i])
    THEN extract ELSE content

\* qa.py:362-365: the full content, or the extract when there is none
ContentOrExtract(content, extract) ==
    IF Falsy(content) THEN extract ELSE content

RECURSIVE StrippedLines(_)
\* qa.py:370: [line.strip() for line in content.splitlines() if line.strip()]
StrippedLines(lines) ==
    IF lines = << >> THEN << >>
    ELSE (IF NonEmptyLine(Head(lines)) THEN << strip_line(Head(lines)) >> ELSE << >>)
           \o StrippedLines(Tail(lines))

\* qa.py:360-375: the lines joined for the summarizer, none for None
GatherLines(content, extract) ==
    LET text == ContentOrExtract(content, extract)
    IN  IF Falsy(text) THEN << >>
        ELSE SubSeq(StrippedLines(text.lines), 1,
                    IF Len(StrippedLines(text.lines)) < MaxLines
                    THEN Len(StrippedLines(text.lines)) ELSE MaxLines)

\* an article and what get_article_content gives for it
Gathered(content, extract) == [content |-> content, extract |-> extract]

\* one article, or two with a second one of no, few or many lines
GatherArticleLists ==
    { << Gathered(c, e) >> : c \in Contents, e \in Extracts }
      \cup { << Gathered(c, e), Gathered(c2, TextOf(<< TextLine(7) >>)) >> :
               c \in Contents, e \in Extracts,
               c2 \in { NoneText, LinesWith(2, {1}), LinesWith(MaxContentLines, {3}) } }

InitGather ==
    /\ rows = << >>
    /\ ncommit = [key \in Keys |-> 0]
    /\ ncalls = 0
    /\ upc = [p \in Procs |-> "idle"]
    /\ uarg = [p \in Procs |-> NoArgs]
    /\ upend = [p \in Procs |-> NoWrite]
    /\ \E articles \in GatherArticleLists :
         call = [pc |-> "summarize", articles |-> articles, k |-> 1,
                 handed |-> << >>, tried |-> << >>, summary_text |-> NoneText]

\* qa.py:87-94 and 344-358: one round of the loop: without lines the
\* summarizer is not called and the next article is tried; a summary ends
\* the loop
GatherAndSummarize ==
    /\ call.pc = "summarize"
    /\ LET article == call.articles[call.k]
           last == call.k = Len(call.articles)
           wikipedia_lines == GatherLines(article.content, article.extract)
       IN  IF wikipedia_lines = << >>
           THEN call' = [call EXCEPT
                  !.tried = Append(@, call.k),
                  !.k = @ + 1,
                  !.pc = AfterAttempt(NoneText, last)]
           ELSE \E outcome \in SummarizeOutcomes :
                  call' = [call EXCEPT
                    !.tried = Append(@, call.k),
                    !.handed = Append(@, [article |-> call.k, content |-> wikipedia_lines]),
                    !.summary_text = IF outcome.r = "ok" THEN outcome.text ELSE NoneText,
                    !.k = @ + 1,
                    !.pc = IF outcome.r = "other_error" THEN "raised"
                           ELSE AfterAttempt(IF outcome.r = "ok" THEN outcome.text
                                             ELSE NoneText, last)]
    /\ UNCHANGED <<rows, ncommit, ncalls, upc, uarg, upend>>

NextGather == GatherAndSummarize

\* the loop over the articles of one call
GatherSpec == InitGather /\ [][NextGather]_vars

(***************************************************************************)
(* _score_sentence, _extract_keywords and _split_into_sentences alone      *)
(* (qa.py:178-204), character by character, on short texts.  The          *)
(* definitions _score_sentence and _extract_keywords above are the same    *)
(* functions on sentences known by their keywords and on lists of words.   *)
(***************************************************************************)
MaxPieces == 5     \* pieces that a text is put together from

\* the pieces of the texts: a blank, a delimiter, a run of two delimiters, a
\* stop word with a capital, a word of four letters and a word of two
Pieces == {" ", ".", "?!", "The", "hats", "it"}

RECURSIVE Concat(_)
\* the characters of the pieces, one piece after the other
Concat(pieces) ==
    IF pieces = << >> THEN << >> ELSE Spell(Head(pieces)) \o Concat(Tail(pieces))

\* the texts of at most MaxPieces pieces, a piece more than once among them
Texts ==
    { Concat(pieces) : pieces \in UNION { [1..n -> Pieces] : n \in 0..MaxPieces } }

\* keyword lists, one with an entry twice among them
KeywordLists ==
    { << >>, << Spell("hats") >>, << Spell("hats"), Spell("hats") >>,
      << Spell("the"), Spell("hats") >>, << Spell("it") >> }

\* the keyword as a word of its own
Contains_word(text, part) == re_search(part, text)

\* `keyword in sentence_lower`: the characters of part, somewhere in text
Contains(text, part) ==
    \/ part = << >>
    \/ \E s \in 1..Len(text) :
         /\ s + Len(part) - 1 <= Len(text)
         /\ SubSeq(text, s, s + Len(part) - 1) = part

\* qa.py:197-204: one more for every entry of keywords that occurs
score_sentence(sentence, keywords) ==
    LET sentence_lower == lower(sentence)
    IN  Cardinality({ i \in 1..Len(keywords) : Contains(sentence_lower, keywords[i]) })

\* qa.py:142: `if score > 0`, the sentence is among those sorted by score
IsCandidate(score) == score > 0

RECURSIVE findall_words(_, _, _)
\* re.findall(r'\b\w+\b', text): the longest runs of word characters; cur
\* is the run being read, acc the runs so far
findall_words(text, cur, acc) ==
    IF text = << >> THEN (IF cur = << >> THEN acc ELSE Append(acc, cur))
    ELSE IF Head(text) \in NonWordChars
         THEN findall_words(Tail(text), << >>,
                            IF cur = << >> THEN acc ELSE Append(acc, cur))
         ELSE findall_words(Tail(text), Append(cur, Head(text)), acc)

\* the stop words, spelled
StopWordChars == { Spell(word) : word \in stop_words }

\* every word that is no stop word
IsKeywordChars_anylength(word) == word \notin StopWordChars

\* qa.py:189: `word not in stop_words and len(word) > 2`
IsKeywordChars(word) == word \notin StopWordChars /\ Len(word) > MinKeywordLen

\* qa.py:178-190
extract_keywords(text) ==
    SelectSeq(findall_words(lower(text), << >>, << >>), IsKeywordChars)

\* the characters that end a sentence
Delimiters == {".", "!", "?"}

RECURSIVE re_split(_, _, _, _)
\* re.split(r'[.!?]+', text): the pieces between the longest runs of
\* delimiters, empty ones at the ends among them; cur is the piece being
\* read, acc the pieces so far, indelim says that a run is being read
re_split(text, cur, acc, indelim) ==
    IF text = << >> THEN Append(acc, cur)
    ELSE IF Head(text) \in Delimiters
         THEN re_split(Tail(text), << >>,
                       IF indelim THEN acc ELSE Append(acc, cur), TRUE)
         ELSE re_split(Tail(text), Append(cur, Head(text)), acc, FALSE)

\* every piece is kept
KeepsPiece_all(piece) == TRUE

\* qa.py:195: `if s.strip()`
KeepsPiece(piece) == strip(piece) # << >>

\* qa.py:192-195
_split_into_sentences(text) ==
    LET sentences == SelectSeq(re_split(text, << >>, << >>, FALSE), KeepsPiece)
    IN  [n \in 1..Len(sentences) |-> strip(sentences[n])]

InitText ==
    /\ rows = << >>
    /\ ncommit = [key \in Keys |-> 0]
    /\ ncalls = 0
    /\ upc = [p \in Procs |-> "idle"]
    /\ uarg = [p \in Procs |-> NoArgs]
    /\ upend = [p \in Procs |-> NoWrite]
    /\ \E text \in Texts :
         call = [pc |-> "text", text |-> text, keywords |-> << >>, score |-> 0,
                 candidate |-> FALSE, out |-> << >>]

\* _score_sentence is applied to the text and a keyword list
ScoreSentence ==
    /\ call.pc = "text"
    /\ \E keywords \in KeywordLists :
         call' = [call EXCEPT
            !.pc = "scored", !.keywords = keywords,
            !.score = score_sentence(call.text, keywords),
            !.candidate = IsCandidate(score_sentence(call.text, keywords))]
    /\ UNCHANGED <<rows, ncommit, ncalls, upc, uarg, upend>>

\* _extract_keywords is applied to the text
ExtractKeywords ==
    /\ call.pc = "text"
    /\ call' = [call EXCEPT !.pc = "extracted", !.out = extract_keywords(call.text)]
    /\ UNCHANGED <<rows, ncommit, ncalls, upc, uarg, upend>>

\* _split_into_sentences is applied to the text
SplitIntoSentences ==
    /\ call.pc = "text"
    /\ call' = [call EXCEPT !.pc = "split", !.out = _split_into_sentences(call.text)]
    /\ UNCHANGED <<rows, ncommit, ncalls, upc, uarg, upend>>

NextText ==
    \/ ScoreSentence
    \/ ExtractKeywords
    \/ SplitIntoSentences

\* one of the three functions applied to one text
TextSpec == InitText /\ [][NextText]_vars

(***************************************************************************)
(* Properties.                                                             *)
(***************************************************************************)
Range(seq) == { seq[n] : n \in 1..Len(seq) }

Returned == call.pc = "done"

\* C1: answer_question never raises to its caller, whatever the outcomes
\* of its collaborators: no call ends with an error.
C1_NeverRaises == call.pc # "raised"

C3_AtMostTwoCitations == Returned => Len(call.result.citations) \in {0, 1, 2}

\* a call returned 2 citations out of 3 search results
C3_Witness ==
    /\ Returned
    /\ Len(call.search_results) = SearchLimit
    /\ Len(call.result.citations) = CitedResults

\* C4 as claimed: the extractive synthesizer is given the question of the
\* caller, also when the rewrite produced a rewritten question.
C4_SynthGetsOriginal ==
    call.synth_question # << >> => call.synth_question = call.question

\* C4 as amended: the extractive synthesizer is given the query question:
\* the rewritten question when the rewrite produced a non-empty one, and
\* the question of the caller otherwise.
C4_SynthGetsQuery ==
    call.synth_question # << >> =>
        call.synth_question =
            IF call.rewritten # << >> THEN call.rewritten ELSE call.question

\* the synthesizer ran in a call whose question was rewritten
C4_Witness ==
    /\ call.synth_question # << >>
    /\ call.rewritten # << >>
    /\ call.rewritten # call.question

\* C5: the summarizer is tried on the fetched articles in order and stops
\* at the first summary, which is the answer text; article 2 is tried only
\* when article 1 failed or was skipped, and the extractive fallback runs
\* only when no attempt gave a summary.
C5_FirstSummaryWins ==
    /\ Len(call.attempts) <= Len(call.articles)
    /\ \A n \in 1..Len(call.attempts) :
         /\ call.attempts[n].article = call.articles[n].title
         /\ n < Len(call.attempts) => call.attempts[n].r \in {"failed", "skipped"}
    /\ call.synth_question # << >> =>
         /\ Len(call.attempts) = Len(call.articles)
         /\ \A n \in 1..Len(call.attempts) : call.attempts[n].r \in {"failed", "skipped"}
    /\ \A n \in 1..Len(call.attempts) :
         (call.attempts[n].r = "ok" /\ Returned) =>
             call.result.answer = call.attempts[n].text

\* a call returned the summary of article 2 after the attempt on article 1
\* had failed
C5_Witness ==
    /\ Returned
    /\ Len(call.attempts) = 2
    /\ call.attempts[1].r = "failed"
    /\ call.attempts[2].r = "ok"

\* C6: when search returns nothing, the Answer is the fixed "couldn't find
\* any relevant information" message with no citations, and no article is
\* fetched and no summary asked for.
C6_NoResults ==
    (Returned /\ call.search_results = << >>) =>
        /\ call.result.answer = MsgNoResults
        /\ call.result.citations = << >>
        /\ call.result.conversation_id = call.conversation_id
        /\ Range(call.log) \cap
             {"get_article", "get_article_content", "summarize", "synthesize",
              "context_write"} = {}
        /\ call.log[Len(call.log)] = "search"

\* a call with a stored context returned after an empty search
C6_Witness ==
    /\ Returned
    /\ call.search_results = << >>
    /\ Truthy(call.context)

\* C7: when search returns results and every fetch fails, the Answer is the
\* fixed "found some search results but couldn't retrieve" message, and
\* its citations are those of the first min(n, 2) search results, in
\* search order: title, url, cleaned snippet, page id.
C7_NoArticles ==
    (Returned /\ call.search_results # << >> /\ call.articles = << >>) =>
        /\ call.result.answer = MsgNoArticles
        /\ Len(call.result.citations) = Min(Len(call.search_results), 2)
        /\ \A n \in 1..Len(call.result.citations) :
             LET cited == call.result.citations[n]
                 found == call.search_results[n]
             IN  /\ cited.title = found.title
                 /\ cited.url = found.url
                 /\ cited.page_id = found.page_id
                 /\ cited.snippet = _clean_snippet(found.snippet)
                 /\ TextLen(cited.snippet) <= MaxSnippetLen

\* a call returned 2 citations of raw results out of 3 search results, the
\* snippet of one of them cut
C7_Witness ==
    /\ Returned
    /\ Len(call.search_results) = SearchLimit
    /\ call.articles = << >>
    /\ Len(call.result.citations) = CitedResults
    /\ \E n \in 1..CitedResults :
         /\ TextLen(call.search_results[n].snippet) > MaxSnippetLen
         /\ TextLen(call.result.citations[n].snippet) < MaxSnippetLen

\* C8: a failure of the context store never aborts the delivery of the
\* answer: no call ends with an error that comes from the context read or
\* the context write.
C8_StoreFailureNeverAborts ==
    call.pc = "raised" => call.error \notin {"context_read", "context_write"}

\* C9: after any interleaving of upserts the table holds at most one row
\* per (conversation id, installation id).
C9_OneRowPerKey ==
    \A key \in Keys : Cardinality(Matches(rows, key[1], key[2])) <= 1

\* C10: for upserts on one key executed one after another, the count is 1
\* after the upsert that creates the row and grows by 1 with each later
\* upsert: after n committed upserts it is n, a row without a count
\* counting as 0.
C10_CountIsCommits ==
    \A key \in Keys :
        /\ ncommit[key] > 0 => Matches(rows, key[1], key[2]) # {}
        /\ \A id \in Matches(rows, key[1], key[2]) :
             Get(json_loads(rows[id].context), "conversation_count", 0) = ncommit[key]

\* three upserts were committed on one key, and its row counts 3
C10_Witness ==
    /\ ncommit[<<"c1", 1>>] = MaxUpserts
    /\ \E id \in Matches(rows, "c1", 1) :
         json_loads(rows[id].context).conversation_count = MaxUpserts

\* the caller supplied a conversation id and an installation id
BothSupplied == call.conversation_id # NoConv /\ call.installation_id # NoInst

C12_WritesOriginalAndFinal ==
    [][ /\ (call.pc = "update" /\ rows' # rows) =>
             \E id \in Matches(rows', call.conversation_id, call.installation_id) :
                 /\ id > Len(rows) \/ rows'[id] # rows[id]
                 /\ json_loads(rows'[id].context).last_question = call.question
                 /\ json_loads(rows'[id].context).last_answer = call.answer_text
        /\ (call.pc = "update" /\ call'.pc = "done") =>
             /\ call'.result.answer = call.answer_text
             /\ call'.question = call.question ]_vars

\* a call whose question was rewritten returned, and the row of its key
\* holds its question and its answer
C12_Witness ==
    /\ Returned
    /\ "context_write" \in Range(call.log)
    /\ call.rewritten # << >>
    /\ call.query_question # call.question
    /\ \E id \in Matches(rows, call.conversation_id, call.installation_id) :
         /\ Get(json_loads(rows[id].context), "last_question", << >>) = call.question
         /\ Get(json_loads(rows[id].context), "last_answer", NoneText)
              = call.result.answer

\* the call is between its rewrite step and its answer step: the table is
\* as it was when the context was loaded
PastRewrite == call.pc \in {"search", "fetch", "summarize", "answer"}

\* in the log of the call, the rewrite comes right after the context load
\* and before the search
RewriteInOrder ==
    "rewrite" \in Range(call.log) =>
        /\ call.log[1] = "context_read"
        /\ call.log[2] = "rewrite"
        /\ \A n \in 1..Len(call.log) : call.log[n] = "search" => n > 2

\* C13 as claimed: the rewrite delegate is called if and only if the
\* question needs a rewrite and a record exists for the supplied key, and
\* then after the context load and before the search.
C13_RewriteIffRecord ==
    PastRewrite =>
        /\ "rewrite" \in Range(call.log) <=>
             /\ _should_rewrite_question(call.question)
             /\ BothSupplied
             /\ Matches(rows, call.conversation_id, call.installation_id) # {}
        /\ RewriteInOrder

\* C13 as amended: the rewrite delegate is called if and only if the
\* question needs a rewrite and the context load returned a non-empty last
\* answer, which takes a record for the supplied key and a read that did
\* not fail; and then after the context load and before the search.
C13_RewriteIffContext ==
    PastRewrite =>
        /\ "rewrite" \in Range(call.log) <=>
             /\ _should_rewrite_question(call.question)
             /\ call.context.kind # "none"
             /\ call.context.len > 0
        /\ call.context.kind # "none" =>
             /\ BothSupplied
             /\ \E id \in Matches(rows, call.conversation_id, call.installation_id) :
                  Get(json_loads(rows[id].context), "last_answer", EmptyText)
                    = call.context
        /\ RewriteInOrder

\* a question of more than 4 words with a pronoun was rewritten, the
\* context loaded
C13_Witness ==
    /\ PastRewrite
    /\ "rewrite" \in Range(call.log)
    /\ Len(call.question) > MaxShortWords
    /\ call.context.len > 0
    /\ "search" \in Range(call.log)

\* C14: when the rewrite delegate fails or returns nothing, the call goes
\* on without a sign of it: the search is next, the query is the question
\* of the caller, and no call ends with an error of the rewrite.
C14_RewriteFailureIsSilent ==
    /\ (call.log # << >> /\ call.log[Len(call.log)] = "rewrite") =>
         call.pc = "search"
    /\ ("rewrite" \in Range(call.log) /\ call.rewritten = << >>) =>
         /\ call.query_question = call.question
         /\ call.pc = "raised" => call.error # "rewrite"
         /\ Returned => call.result.answer.kind = "text"

\* a call whose rewrite failed searched, found articles and returned an
\* answer
C14_Witness ==
    /\ Returned
    /\ "rewrite" \in Range(call.log)
    /\ call.rewritten = << >>
    /\ call.query_question = call.question
    /\ call.articles # << >>
    /\ call.result.answer.kind = "text"

\* the words of a question: its pieces that are not white space
AskedWordCount(question) ==
    Cardinality({ n \in 1..Len(question) : question[n] # "" })

\* the lower-cased words inside a piece, taken apart at the characters
\* that are no word characters
WordsIn(piece) ==
    CASE piece = "" -> { }
      [] piece = "It" -> { "it" }
      [] piece = "it's" -> { "it", "s" }
      [] OTHER -> { piece }

HasPronounWord(question) ==
    \E n \in 1..Len(question) : WordsIn(question[n]) \cap pronouns # { }

\* C15 as claimed: the rewrite test is true exactly when the question has
\* at most 4 words or holds one of the 13 pronouns as a whole word.
C15_NeedsRewriteExactly ==
    call.pc = "decided" =>
        (call.result <=> \/ AskedWordCount(call.question) <= MaxShortWords
                         \/ HasPronounWord(call.question))

\* C15 as amended: the rewrite test is true exactly when the trimmed
\* question is not empty and has at most 4 words or holds one of the 13
\* pronouns as a whole word; a pronoun inside a longer word does not count.
C15_NeedsRewriteUnlessEmpty ==
    call.pc = "decided" =>
        (call.result <=> /\ AskedWordCount(call.question) > 0
                         /\ \/ AskedWordCount(call.question) <= MaxShortWords
                            \/ HasPronounWord(call.question))

\* the test was false for a question of 5 words with "its" and "other"
C15_Witness ==
    /\ call.pc = "decided"
    /\ call.result = FALSE
    /\ AskedWordCount(call.question) > MaxShortWords
    /\ {"its", "other"} \subseteq Range(call.question)

\* the synthesizer has run on call.synth_question and call.articles
SynthDone == call.pc = "synthesized"

\* the sentences of the combined text of the articles, as they appear
Combined == _split_combined(call.articles)

Score(sentence) == _score_sentence(sentence, _extract_keywords(call.synth_question))

\* the texts of the sentences with a score above 0 and more than 20
\* characters
Qualifying ==
    { Combined[n].id : n \in { m \in 1..Len(Combined) :
                                 /\ Score(Combined[m]) > 0
                                 /\ Combined[m].len > MinSentenceLen } }

\* the place where a text first appears in the combined text
FirstPos(id) ==
    CHOOSE n \in 1..Len(Combined) :
        /\ Combined[n].id = id
        /\ \A m \in 1..(n - 1) : Combined[m].id # id

\* the sentences selected by their score
Selected == IF call.parts.how = "scored" THEN call.parts.sents ELSE << >>

\* C16: the synthesizer selects up to 5 distinct sentences with a score
\* above 0 and more than 20 characters: when k <= 5 distinct sentences are
\* such, at least k are selected, also when short sentences or duplicates
\* rank above them.
C16_SelectsUpToFive ==
    SynthDone =>
        /\ Len(Selected) <= MaxSentences
        /\ \A a \in 1..Len(Selected) : Selected[a].id \in Qualifying
        /\ \A a, b \in 1..Len(Selected) : a # b => Selected[a].id # Selected[b].id
        /\ Len(Selected) >= Min(MaxSentences, Cardinality(Qualifying))

\* C17: the selected sentences stand in the answer by score, highest
\* first, and those of one score in the order in which they appear in the
\* combined text of the articles.
C17_ByScoreThenAppearance ==
    (SynthDone /\ call.parts.how = "scored") =>
        /\ \A a, b \in 1..Len(Selected) :
             a < b =>
               \/ Score(Selected[a]) > Score(Selected[b])
               \/ /\ Score(Selected[a]) = Score(Selected[b])
                  /\ FirstPos(Selected[a].id) < FirstPos(Selected[b].id)
        /\ JoinedLen(Selected) - Slack(Selected) <= MaxAnswerLen =>
             call.answer_text.id = JoinedId(Selected)

\* three sentences or more were selected, two of them of one score, and
\* one that appears later in the text stands before one that appears
\* earlier
C17_Witness ==
    /\ SynthDone
    /\ Len(Selected) >= 3
    /\ \E a, b \in 1..Len(Selected) :
         a < b /\ Score(Selected[a]) = Score(Selected[b])
    /\ \E a, b \in 1..Len(Selected) :
         a < b /\ FirstPos(Selected[a].id) > FirstPos(Selected[b].id)

\* C19: the first 3 sentences of the extract of the first article are used
\* only when no sentence has a score above 0 and more than 20 characters,
\* and the fixed message is returned exactly when no sentence is such and
\* the extract of the first article has no sentence.
C19_FallbackChain ==
    SynthDone =>
        /\ call.parts.how = "fallback" =>
             /\ Qualifying = { }
             /\ call.parts.sents =
                  Prefix(call.articles[1].extract.sents, FallbackSentences)
        /\ call.answer_text = MsgIncoherent <=>
             /\ Qualifying = { }
             /\ call.articles[1].extract.sents = << >>

\* the text holds a tag: a "<", characters other than ">" after it, at
\* least one, and a ">"
HasTag(text) ==
    \E i, j \in 1..Len(text) :
        /\ i + 1 < j
        /\ text[i].c = "<"
        /\ text[j].c = ">"
        /\ \A k \in (i + 1)..(j - 1) : text[k].c # ">"

\* the visible text of a snippet: unescaped, without its tags, trimmed
Visible(snippet) == strip_runs(re_sub_tags(unescape(snippet)))

\* C20: the snippet of every citation of every returned Answer, built from
\* a fetched article or from a raw search result, has at most 120
\* characters and no tag; it is the visible text of the snippet of one of
\* the top results, or, when that text is longer than 120, its first 117
\* characters at most and then "...".
C20_SnippetBounded ==
    Returned =>
        \A n \in 1..Len(call.result.citations) :
            LET cited == call.result.citations[n].snippet
            IN  /\ TextLen(cited) <= MaxSnippetLen
                /\ ~HasTag(cited)
                /\ \A k \in 1..Len(cited) : cited[k].c \notin {"&lt;", "&gt;", "&amp;"}
                /\ \E m \in 1..Len(TopResults(call.search_results)) :
                     LET text == Visible(call.search_results[m].snippet)
                     IN  IF TextLen(text) <= MaxSnippetLen THEN cited = text
                         ELSE /\ cited # << >>
                              /\ cited[Len(cited)] = Run(".", EllipsisLen)
                              /\ LET kept == SubSeq(cited, 1, Len(cited) - 1)
                                 IN  /\ TextLen(kept) <= SnippetCut
                                     /\ kept = Take(text, TextLen(kept))

\* a call returned two citations of fetched articles: one snippet had tags
\* and entities and is short, the other was cut and ends with "..."
C20_Witness ==
    /\ Returned
    /\ Len(call.articles) = CitedResults
    /\ Len(call.result.citations) = CitedResults
    /\ \E n \in 1..CitedResults :
         call.result.citations[n].snippet = _clean_snippet(RawSnippet("Cats"))
    /\ \E n \in 1..CitedResults :
         LET cited == call.result.citations[n].snippet
         IN  /\ cited # << >>
             /\ cited[Len(cited)] = Run(".", EllipsisLen)
             /\ TextLen(cited) = MaxSnippetLen - 1

Formatted == call.pc = "formatted"

\* the lines of a text after its header line
AfterHeader(lines) ==
    LET at == CHOOSE n \in 1..Len(lines) : lines[n].kind = "header"
    IN  SubSeq(lines, at + 1, Len(lines))

GatewayDone == call.pc \in {"returned", "raised"}

TransportFailed(outcome) == outcome.kind = "transport_error"

\* the request failed, or its response has an error status (not found is
\* 404), is not JSON, or lacks a field (an entry of its list lacks one)
FailedRequest(outcome, fields) ==
    \/ TransportFailed(outcome)
    \/ /\ outcome.kind = "response"
       /\ \/ outcome.status # 200
          \/ outcome.body = NotJson
          \/ /\ "query" \notin fields
             /\ DOMAIN outcome.body # fields
          \/ /\ "query" \in fields
             /\ "query" \in DOMAIN outcome.body
             /\ "search" \in DOMAIN outcome.body.query
             /\ \E item \in Range(outcome.body.query.search) :
                  DOMAIN item # {"title", "snippet", "pageid"}

\* C22 as claimed: search returns the empty sequence and get_article
\* returns absent on any transport failure or malformed or not-found
\* response, and neither ever raises an error.
C22_FailsSoftly ==
    GatewayDone =>
      /\ call.pc # "raised"
      /\ call.op = "search" /\ FailedRequest(call.outcome, {"query"})
           => call.result.value = << >>
      /\ call.op = "get_article"
           /\ (FailedRequest(call.summary, DOMAIN SummaryData)
                 \/ TransportFailed(call.sections))
           => call.result.value = NoArticle

\* C22 as the code has it: search returns the empty sequence when its
\* request fails, get_article returns absent when its summary request
\* fails, a failed sections request leaves the article with no sections,
\* and neither ever raises an error.
C22_FailsSoftlyOnSummary ==
    GatewayDone =>
      /\ call.pc # "raised"
      /\ call.op = "search" /\ FailedRequest(call.outcome, {"query"})
           => call.result.value = << >>
      /\ call.op = "get_article" /\ FailedRequest(call.summary, DOMAIN SummaryData)
           => call.result.value = NoArticle
      /\ call.op = "get_article" /\ ~FailedRequest(call.summary, DOMAIN SummaryData)
           /\ FailedRequest(call.sections, {"sections"})
           => /\ call.result.value # NoArticle
              /\ call.result.value.title = SummaryData.title
              /\ call.result.value.sections = << >>

\* the summary is found and the sections request has a transport error
C22_Witness ==
    /\ GatewayDone
    /\ call.op = "get_article"
    /\ ~FailedRequest(call.summary, DOMAIN SummaryData)
    /\ TransportFailed(call.sections)
    /\ call.result.value # NoArticle

IsCallback(r) == call.req[r].pc # "new" /\ call.req[r].path = "/oauth/callback"

\* the callback went on to the token exchange
Accepted(r) ==
    IsCallback(r) /\ (call.req[r].pc = "exchange" \/ call.req[r].exchanged)

\* C23: a state issued by /install is accepted by /oauth/callback at most
\* once: a callback whose state is unknown or already used is answered
\* with status 400 and makes no token exchange, and a state is out of the
\* pending set from its first use on, also when the token exchange fails.
C23_StateAcceptedOnce ==
    \A r \in Requests :
      /\ Accepted(r) =>
           /\ call.req[r].state \notin call.oauth_states
           /\ \A other \in Requests \ {r} :
                Accepted(other) => call.req[other].state # call.req[r].state
      /\ IsCallback(r) /\ ~call.req[r].pending =>
           /\ call.req[r].pc = "done"
           /\ call.req[r].status = BadRequest
           /\ ~call.req[r].exchanged

\* a state is used by a callback whose token exchange fails, and a second
\* callback with the same state is rejected
C23_Witness ==
    \E r, other \in Requests :
      /\ Accepted(r)
      /\ call.req[r].pc = "done"
      /\ call.req[r].page = "Installation Failed"
      /\ IsCallback(other)
      /\ other # r
      /\ call.req[other].state = call.req[r].state
      /\ call.req[other].code # ""
      /\ call.req[other].error = ""
      /\ call.req[other].status = BadRequest

RowsOf(team) ==
    { id \in 1..Len(call.installations) : call.installations[id].team_id = team }

ValidSignature(request) ==
    /\ request.signature.v0.key = request.secret
    /\ request.signature.v0.msg = <<"v0", request.timestamp, request.body>>

\* the timestamp is a time at most 5 minutes from now
WithinFiveMinutes(request) ==
    \E t \in (Now - Tolerance)..(Now + Tolerance) : int(request.timestamp) = t

\* C25: verify_slack_signature accepts a request exactly when no signing
\* secret is set, or both headers are there, the timestamp is within 5
\* minutes of now and the signature is the HMAC of "v0:timestamp:body"
\* under the secret; a request that is not accepted is answered with
\* status 400 and never passed to the handler.
C25_AcceptedOrRejected ==
    call.pc \in {"handle", "done"} =>
      LET accepted == call.pc = "handle" \/ call.handled
      IN  /\ accepted <=>
               \/ call.secret = NoSecret
               \/ /\ call.timestamp # ""
                  /\ call.signature # NoSignature
                  /\ WithinFiveMinutes(call)
                  /\ ValidSignature(call)
          /\ ~accepted => call.status = BadRequest /\ ~call.handled

\* the number of entries e in a log
Count(log, e) == Cardinality({ n \in 1..Len(log) : log[n] = e })

\* the place of a collaborator call in the fixed order; the full text of
\* an article is fetched inside the summarize attempt on it
Stage(e) ==
    CASE e = "context_read" -> 1
      [] e = "rewrite" -> 2
      [] e = "search" -> 3
      [] e = "get_article" -> 4
      [] e \in {"get_article_content", "summarize"} -> 5
      [] e = "synthesize" -> 6
      [] e = "context_write" -> 7

\* C26: every call of answer_question makes its collaborator calls in the
\* order context read, rewrite, search, article fetches, summarize
\* attempts, context write, one at a time, all fetches before the first
\* summarize attempt, with at most 1 context read, 1 rewrite, 2 article
\* fetches, 2 summarize attempts and 1 context write and exactly 1 search,
\* and every call ends in one of the outcomes NoResults, NoArticles, Done.
C26_FixedOrderAndOutcome ==
    /\ \A m, n \in 1..Len(call.log) : m < n => Stage(call.log[m]) <= Stage(call.log[n])
    /\ Count(call.log, "context_read") <= 1
    /\ Count(call.log, "rewrite") <= 1
    /\ Count(call.log, "search") <= 1
    /\ Count(call.log, "get_article") <= CitedResults
    /\ Len(call.attempts) <= CitedResults
    /\ Count(call.log, "summarize") <= CitedResults
    /\ Count(call.log, "context_write") <= 1
    /\ call.pc \in {"done", "raised"} =>
         /\ Count(call.log, "search") = 1
         /\ call.pc = "done"
         /\ \/ call.result.answer = MsgNoResults /\ call.search_results = << >>
            \/ call.result.answer = MsgNoArticles /\ call.articles = << >>
            \/ call.result.answer = call.answer_text /\ call.articles # << >>

\* the top results whose fetch gave an article, in search order
FetchedResults ==
    SelectSeq([n \in 1..Len(call.fetched) |-> n],
              LAMBDA n : call.fetched[n] # NoArticle)

\* C27 as claimed: when search returns n >= 1 results, the returned Answer
\* has min(n, 2) citations, one per top result in search order, built from
\* the fetched article when its fetch succeeded and from the raw search
\* result otherwise.
C27_CitationPerResult ==
    (Returned /\ call.search_results # << >>) =>
        /\ Len(call.result.citations) = Min(Len(call.search_results), CitedResults)
        /\ \A n \in 1..Len(call.result.citations) :
             LET cited == call.result.citations[n]
                 found == call.search_results[n]
                 source == IF call.fetched[n] # NoArticle THEN call.fetched[n] ELSE found
             IN  /\ cited.title = source.title
                 /\ cited.url = source.url
                 /\ cited.page_id = source.page_id
                 /\ cited.snippet = _clean_snippet(found.snippet)

\* C27 as the code has it: when at least one fetch succeeds, the returned
\* Answer has one citation per fetched article, in search order, with the
\* title, the url and the page id of the article and the cleaned snippet
\* of its search result, and none for a result whose fetch failed; when
\* every fetch fails it has one citation per top result, built from the
\* search result.
C27_CitationPerFetchedArticle ==
    (Returned /\ call.search_results # << >>) =>
        /\ Len(call.fetched) = Min(Len(call.search_results), CitedResults)
        /\ IF FetchedResults = << >>
           THEN /\ Len(call.result.citations) = Len(call.fetched)
                /\ \A n \in 1..Len(call.result.citations) :
                     LET cited == call.result.citations[n]
                         found == call.search_results[n]
                     IN  /\ cited.title = found.title
                         /\ cited.url = found.url
                         /\ cited.page_id = found.page_id
                         /\ cited.snippet = _clean_snippet(found.snippet)
           ELSE /\ Len(call.result.citations) = Len(FetchedResults)
                /\ \A n \in 1..Len(call.result.citations) :
                     LET cited == call.result.citations[n]
                         found == call.search_results[FetchedResults[n]]
                         article == call.fetched[FetchedResults[n]]
                     IN  /\ cited.title = article.title
                         /\ cited.url = article.url
                         /\ cited.page_id = article.page_id
                         /\ cited.snippet = _clean_snippet(found.snippet)

\* the first fetch failed and the second gave an article with a title
\* other than that of the search result: the Answer has one citation
C27_Witness ==
    /\ Returned
    /\ Len(call.fetched) = CitedResults
    /\ call.fetched[1] = NoArticle
    /\ call.fetched[2] # NoArticle
    /\ call.fetched[2].title # call.search_results[2].title
    /\ Len(call.result.citations) = 1

\* the count stored in row id of a table
CountOf(table, id) == Get(json_loads(table[id].context), "conversation_count", 0)

\* worker p has read row id and staged its update, not yet committed
Staged(p, id) ==
    upc[p] = "read" /\ upend[p].op = "update" /\ upend[p].id = id

\* the count that worker p has staged
StagedCount(p) == json_loads(upend[p].context).conversation_count

\* worker p commits its staged change in this step
Commits(p) ==
    /\ upc[p] = "read"
    /\ upc'[p] = "done"
    /\ rows' # rows

\* C28: two upserts on the same existing key can race: when both have read
\* the row before either commits, both have staged the same count; the
\* commit of the first makes the row hold that count, and the commit of
\* the second, which still writes the count it staged, leaves it there, so
\* that the count has grown by 1 instead of 2.
C28_LostUpdate ==
    [][\A p \in Procs, id \in 1..Len(rows) :
         (Staged(p, id) /\ Commits(p)) =>
           /\ CountOf(rows', id) = StagedCount(p)
           /\ \A q \in Procs \ {p} :
                (Staged(q, id) /\ StagedCount(q) = StagedCount(p))
                  => /\ Staged(q, id)'
                     /\ StagedCount(q)' = CountOf(rows', id)
           /\ StagedCount(p) = CountOf(rows, id)
                => CountOf(rows', id) = CountOf(rows, id)]_vars

\* two upserts on the key of the row that was there from the start have
\* both committed and returned, and the count of the row is 1, not 2
C28_Witness ==
    /\ ncalls = 2
    /\ \A p \in Procs : upc[p] = "idle"
    /\ ncommit[<<"c1", 1>>] = 2
    /\ Matches(rows, "c1", 1) = {1}
    /\ CountOf(rows, 1) = 1

\* C29: when the question needs a rewrite, a prior context exists and the
\* delegate answers with a non-empty text, that text is the query of the
\* search and the topic of every summarize attempt of the call.
C29_RewrittenIsSearched ==
    call.rewritten # << >> =>
        /\ Truthy(call.context)
        /\ _should_rewrite_question(call.question)
        /\ "search" \in Range(call.log) => call.searched = call.rewritten
        /\ Len(call.topics) = Count(call.log, "summarize")
        /\ \A n \in 1..Len(call.topics) : call.topics[n] = call.rewritten

\* a call searched for the rewritten question, which is not the question
\* asked, and handed it to the summarizer twice
C29_Witness ==
    /\ Returned
    /\ call.rewritten # << >>
    /\ call.rewritten # call.question
    /\ call.searched = call.rewritten
    /\ Len(call.topics) = CitedResults

\* the last answers stored for a key
StoredAnswers(table, conversation_id, installation_id) ==
    { Get(json_loads(table[id].context), "last_answer", EmptyText) :
        id \in Matches(table, conversation_id, installation_id) }

\* the call in progress has completed through the context write
WentThroughUpdate == call.pc = "done" /\ "context_write" \in Range(call.log)

\* this step starts the next call, on the key of the call before it
NextCallOnSameKey ==
    /\ ncalls' = ncalls + 1
    /\ call'.conversation_id = call.conversation_id
    /\ call'.installation_id = call.installation_id

\* every context handed to a delegate is the context that the call loaded
PassesLoadedContext ==
    \A n \in 1..Len(call.passed) : call.passed[n].context = call.context

EndedEarly ==
    /\ "answer" \in DOMAIN call.result
    /\ call.result.answer \in {MsgNoResults, MsgNoArticles}

\* C31: a call of answer_question that ends in NoResults or NoArticles
\* leaves the context store as it found it: no record is created and the
\* record of the key, if there is one, keeps its question, answer and count.
C31_EarlyReturnKeepsStore ==
    EndedEarly => rows = call.before /\ "context_write" \notin Range(call.log)

\* a call with a key and a stored record has ended in NoArticles, after an
\* earlier call on the key that wrote the record
C31_Witness ==
    /\ Returned
    /\ call.result.answer = MsgNoArticles
    /\ HasKey(call.conversation_id, call.installation_id)
    /\ Matches(rows, call.conversation_id, call.installation_id) # {}
    /\ ncommit[<<call.conversation_id, call.installation_id>>] = 1

\* C32: the answer text of every Answer returned by answer_question is
\* non-empty: a fixed message, a non-empty summary, or a non-empty synthesis,
\* also after the clean_text of line 170 over the joined sentences.
C32_AnswerNonEmpty ==
    call.pc = "synthesized" =>
        call.answer_text.kind = "text" /\ call.answer_text.len > 0

\* the function of the call in progress has returned or raised
SessionDone == call.pc \in {"returned", "raised"}

\* the place of the first entry e in a log, 0 when there is none
Place(log, e) ==
    IF \E n \in 1..Len(log) : log[n] = e
    THEN CHOOSE n \in 1..Len(log) : log[n] = e /\ \A m \in 1..(n - 1) : log[m] # e
    ELSE 0

\* C33: every database session opened by the context read, the context
\* upsert and the Q&A log write is closed exactly once on every path
\* (record found, record absent, error), never more than once on the way,
\* and an error during a write is followed by a rollback before the close.
C33_ClosedOnceAndRolledBack ==
    /\ Count(call.events, "close") <= 1
    /\ (SessionDone /\ Count(call.events, "open") = 1) =>
         /\ Count(call.events, "close") = 1
         /\ call.events[Len(call.events)] = "close"
         /\ (Writes(call.op) /\ Count(call.events, "error") = 1) =>
              /\ Count(call.events, "rollback") = 1
              /\ Place(call.events, "error") < Place(call.events, "rollback")
              /\ Place(call.events, "rollback") < Place(call.events, "close")

\* an upsert whose statement failed has rolled back and closed its session,
\* in a call after the first
C33_Witness ==
    /\ SessionDone
    /\ call.op = "upsert"
    /\ call.events = << "open", "error", "rollback", "close" >>
    /\ call.nops > 1

\* the places of the lines of a text that are not empty when trimmed
TextPlaces(lines) == { n \in 1..Len(lines) : lines[n].id # 0 }

\* the place of the j-th of them
NthPlace(lines, j) ==
    CHOOSE n \in TextPlaces(lines) :
      Cardinality({ m \in TextPlaces(lines) : m <= n }) = j

\* the text that the lines of an article are taken from: the full content,
\* the extract when the content is unavailable or empty
SourceLines(article) ==
    IF article.content = NoneText THEN article.extract.lines
    ELSE IF article.content.lines = << >> THEN article.extract.lines
    ELSE article.content.lines

\* the articles that the summarizer was called for
HandedArticles == { call.handed[n].article : n \in 1..Len(call.handed) }

\* C34: for each article the text passed to the summarizer consists of at
\* most the first 10 non-empty trimmed lines of the article's full content,
\* in original order, taken from the extract instead when the content is
\* unavailable or empty; when no line is available the summarizer is not
\* called for that article and the loop moves on to the next article.
C34_FirstTenLines ==
    /\ \A n \in 1..Len(call.handed) :
         LET lines == SourceLines(call.articles[call.handed[n].article])
             content == call.handed[n].content
         IN  /\ Len(content) = IF Cardinality(TextPlaces(lines)) < MaxLines
                               THEN Cardinality(TextPlaces(lines)) ELSE MaxLines
             /\ Len(content) > 0
             /\ \A j \in 1..Len(content) :
                  /\ content[j].id = lines[NthPlace(lines, j)].id
                  /\ content[j].lead = 0
    /\ \A n \in 1..Len(call.tried) :
         LET k == call.tried[n]
         IN  /\ k \in HandedArticles
                   <=> TextPlaces(SourceLines(call.articles[k])) # {}
             /\ (k \notin HandedArticles /\ k < Len(call.articles)) =>
                   \/ call.pc = "summarize" /\ call.k = k + 1
                   \/ \E m \in 1..Len(call.tried) : m > n /\ call.tried[m] = k + 1

\* the first article has a content of blank lines and an extract with a
\* line of text: the summarizer was not called for it; it was called for
\* the second with the first 10 of its 11 lines of text, trimmed
C34_Witness ==
    /\ Len(call.articles) = 2
    /\ call.tried = << 1, 2 >>
    /\ call.articles[1].content = LinesWith(2, {1, 2})
    /\ TextPlaces(call.articles[1].extract.lines) # {}
    /\ HandedArticles = {2}
    /\ Len(call.handed[1].content) = MaxLines
    /\ call.handed[1].content[3] = strip_line(TextLine(4))

\* the keyword can be read in the lower-cased text from place s on
ReadsAt(text, keyword, s) ==
    /\ s + Len(keyword) - 1 <= Len(text)
    /\ \A j \in 1..Len(keyword) : lower(text)[s + j - 1] = keyword[j]

\* the entries of the keyword list that occur in the text
Occurring(text, keywords) ==
    { i \in 1..Len(keywords) : \E s \in 1..Len(text) : ReadsAt(text, keywords[i], s) }

\* C35: the score of a sentence is the number of entries of the keyword
\* list, each entry counted, that occur in the lower-cased sentence as a
\* substring, inside a longer word too; a sentence with none of the
\* keywords scores 0 and is not selected by score.
C35_ScoreCountsSubstrings ==
    call.pc = "scored" =>
        /\ call.score = Cardinality(Occurring(call.text, call.keywords))
        /\ Occurring(call.text, call.keywords) = {} =>
              call.score = 0 /\ ~call.candidate

\* "Thehats it" scores 2 on the list hats, hats: the entry counts twice,
\* and it is found inside a longer word
C35_Witness ==
    /\ call.pc = "scored"
    /\ call.text = Concat(<< "The", "hats", " ", "it" >>)
    /\ call.keywords = << Spell("hats"), Spell("hats") >>
    /\ call.score = 2
    /\ call.candidate

\* the places where a word of the text starts
WordStarts(text) ==
    { s \in 1..Len(text) :
        text[s] \notin NonWordChars /\ (s = 1 \/ text[s - 1] \in NonWordChars) }

\* the place where the word that starts at s ends
WordEnd(text, s) ==
    CHOOSE e \in s..Len(text) :
      /\ \A n \in s..e : text[n] \notin NonWordChars
      /\ e = Len(text) \/ text[e + 1] \in NonWordChars

\* the lower-cased word that starts at s
WordAt(text, s) == lower(SubSeq(text, s, WordEnd(text, s)))

\* the starts of the words that are no stop words and longer than 2
KeywordStarts(text) ==
    { s \in WordStarts(text) :
        /\ \A word \in stop_words : WordAt(text, s) # Spell(word)
        /\ Len(WordAt(text, s)) > 2 }

\* the j-th smallest member of a set of places
NthOf(places, j) ==
    CHOOSE n \in places : Cardinality({ m \in places : m <= n }) = j

\* C36: keyword extraction returns, in order of appearance, exactly the
\* lower-cased words of the text that are no stop words and are longer than
\* 2; no returned keyword is a stop word or has length <= 2.
C36_KeywordsExtracted ==
    call.pc = "extracted" =>
        /\ Len(call.out) = Cardinality(KeywordStarts(call.text))
        /\ \A j \in 1..Len(call.out) :
             /\ call.out[j] = WordAt(call.text, NthOf(KeywordStarts(call.text), j))
             /\ \A word \in stop_words : call.out[j] # Spell(word)
             /\ Len(call.out[j]) > 2

\* "The hats it": the stop word with its capital and the word of two
\* letters are left out
C36_Witness ==
    /\ call.pc = "extracted"
    /\ call.text = Concat(<< "The", " ", "hats", " ", "it" >>)
    /\ call.out = << Spell("hats") >>

\* the places where a fragment between delimiters has its first and its
\* last character that is no blank
SentenceStarts(text) ==
    { s \in 1..Len(text) :
        /\ text[s] \notin Delimiters \cup {" "}
        /\ \E d \in 0..(s - 1) :
             /\ d = 0 \/ text[d] \in Delimiters
             /\ \A n \in (d + 1)..(s - 1) : text[n] = " " }

SentenceEnd(text, s) ==
    CHOOSE e \in s..Len(text) :
      /\ text[e] \notin Delimiters \cup {" "}
      /\ \A n \in s..e : text[n] \notin Delimiters
      /\ \E d \in (e + 1)..(Len(text) + 1) :
           /\ d = Len(text) + 1 \/ text[d] \in Delimiters
           /\ \A n \in (e + 1)..(d - 1) : text[n] = " "

\* C37: sentence splitting returns, in order, the fragments between the
\* longest runs of '.', '!' and '?' that are not empty when trimmed, each
\* trimmed: a text of k such fragments yields exactly k sentences, none
\* empty and none with a blank at its start or end.
C37_SentencesSplit ==
    call.pc = "split" =>
        /\ Len(call.out) = Cardinality(SentenceStarts(call.text))
        /\ \A j \in 1..Len(call.out) :
             LET s == NthOf(SentenceStarts(call.text), j)
             IN  /\ call.out[j] = SubSeq(call.text, s, SentenceEnd(call.text, s))
                 /\ call.out[j] # << >>
                 /\ Head(call.out[j]) # " "
                 /\ call.out[j][Len(call.out[j])] # " "

\* " hats?!it." gives the two sentences "hats" and "it": the blank is
\* trimmed, the run "?!" splits once and nothing follows the full stop
C37_Witness ==
    /\ call.pc = "split"
    /\ call.text = Concat(<< " ", "hats", "?!", "it", "." >>)
    /\ call.out = << Spell("hats"), Spell("it") >>

====
